---- MODULE Spec2Model ----
(***************************************************************************)
(* The store of etianen/state-machine in its four historical variants:     *)
(*   "depth"    createStore with dispatchDepth   (part_004, part_006)      *)
(*   "debounce" createStore with debounce        (src/src/index.js)        *)
(*   "plain"    createStore without a counter    (part_007)                *)
(*   "machine"  createMachine / update           (part_005)                *)
(* JavaScript runs the store on one thread with a call stack; the model    *)
(* keeps that stack explicitly.  One step of the model is the code a       *)
(* handler runs between two calls of user code (an action body, a wrapped  *)
(* function, a listener callback).                                         *)
(***************************************************************************)
EXTENDS Integers, Sequences, FiniteSets, TLC

\* ------------------------------------------------------------- bounds
MaxListeners == 3     \* registrations in the registry
MaxRefs == 2          \* state objects an execution may allocate
MaxOps == 4           \* calls into the store API in one execution
MaxStack == 4         \* frames on the call stack
MaxMiddleware == 3    \* middleware installed on one store, over all applyMiddleware calls
MaxDispatches == 2    \* pipeline: dispatches made by the harness in one execution

\* The initial value of `let state;`
UNDEFINED == 0

VARIABLES
    variant,          \* which createStore / createMachine is running
    middlewareList,   \* the middleware given to applyMiddleware
    state,            \* let state            (a reference: object identity)
    listeners,        \* const listeners = [] (registration order)
    dispatchDepth,    \* let dispatchDepth = 0  (part_004, part_006)
    debounced,        \* let debounced = 0      (src/src/index.js)
    stack,            \* the JavaScript call stack, innermost frame last
    exc,              \* an exception is propagating up the stack
    handles,          \* listeners for which subscribe returned an unsubscribe
    nextRef,          \* next fresh object identity
    ops,              \* store API calls made so far
    calls,            \* listener invocations since the current top-level call began
    done,             \* the store API call that completed last
    reentered,        \* a listener callback called into the store during this top-level call
    live,             \* per listener: subscribe calls not yet matched by an unsubscribe call
    previous,         \* the middleware of an earlier applyMiddleware on the same store
    trace,            \* pipeline stages entered, with the action each was offered
    tasks,            \* promises and observables a middleware has subscribed to
    history,          \* pipeline harness: the states its listener was called with,
                      \* since the harness or the host last called into the store
    heap,             \* the state objects allocated so far (their properties)
    actionCreators    \* the tree of action creators bound to the store

vars == <<variant, middlewareList, state, listeners, dispatchDepth, debounced,
          stack, exc, handles, nextRef, ops, calls, done, reentered, live,
          previous, trace, tasks, history, heap, actionCreators>>

Variants == {"depth", "debounce", "plain", "machine"}
\* Two distinct listener functions; a function may be registered more than once.
ListenerIds == {"l1", "l2"}

\* ------------------------------------------------------------- values
\* Dispatchable values.  "id" is state => state, "set" is setState(patch)
\* (a fresh frozen object), "reset" is () => undefined, "throw" is a function
\* that throws, "asyncFn" is the function-style createAsyncAction(fn) (it
\* returns getState()), "setNested" is setState({key: action}) whose nested
\* action receives a dispatch handle (it returns a fresh object), "asyncObj"
\* is the object-style {_asyncAction: fn}, "notfn" is a value that is neither
\* a function nor an async action.
PureActions == {"id", "set", "reset"}

isFunction(value) == value \in PureActions \cup {"throw", "asyncFn", "setNested"}

isAsyncAction(value) == value = "asyncObj"

Values(v) ==
    CASE v = "depth"    -> PureActions \cup {"throw", "asyncFn", "setNested", "notfn"}
      [] v = "debounce" -> PureActions \cup {"throw", "asyncObj", "notfn"}
      [] v = "plain"    -> PureActions \cup {"throw", "asyncObj", "notfn"}
      [] v = "machine"  -> PureActions \cup {"throw", "notfn"}

\* action(state) for a pure action; fresh is the identity of a new object.
ActionResult(action, s, fresh) ==
    CASE action = "id"    -> s
      [] action = "set"   -> fresh
      [] action = "reset" -> UNDEFINED

\* ------------------------------------------------------------- arrays
Max(a, b) == IF a > b THEN a ELSE b
Min(a, b) == IF a < b THEN a ELSE b

\* Array.prototype.indexOf: 0-based index of the first match, or -1.
indexOf(ls, l) ==
    IF \E i \in 1..Len(ls) : ls[i] = l
    THEN (CHOOSE i \in 1..Len(ls) : ls[i] = l /\ \A j \in 1..(i - 1) : ls[j] # l) - 1
    ELSE -1

\* Array.prototype.splice(start, 1): a negative start counts from the end.
splice(ls, start) ==
    LET len == Len(ls)
        from == IF start < 0 THEN Max(len + start, 0) ELSE Min(start, len)
    IN  IF from < len
        THEN SubSeq(ls, 1, from) \o SubSeq(ls, from + 2, len)
        ELSE ls

\* listeners.push(listener)
pushFront(ls, l) == <<l>> \o ls

push(ls, l) == Append(ls, l)

\* createStore: the unsubscribe function guards on index != -1.
unsubscribeUnguarded(ls, l) == splice(ls, indexOf(ls, l))

unsubscribeWrongIndex(ls, l) ==
    LET index == indexOf(ls, l)
    IN  IF index # -1 THEN splice(ls, index + 1) ELSE ls

createUnsubscribe(ls, l) ==
    LET index == indexOf(ls, l)
    IN  IF index # -1 THEN splice(ls, index) ELSE ls

\* createMachine: () => listeners.splice(listeners.indexOf(listener), 1)
machineUnsubscribe(ls, l) == splice(ls, indexOf(ls, l))

\* ------------------------------------------------------------- notification gates
\* part_004 / part_006: if (state !== initialState && dispatchDepth === 0)
depthNotifiesUngated(initialState, newState, depth) == newState # initialState

depthNotifiesAlways(initialState, newState, depth) == depth = 0

depthNotifiesBeforeFinally(initialState, newState, depth) ==
    newState # initialState /\ depth = 1

depthNotifies(initialState, newState, depth) ==
    newState # initialState /\ depth = 0

\* src/src/index.js notify: if (newState !== initialState && debounced === 0)
notifyUngated(initialState, newState, count) == newState # initialState

notify(initialState, newState, count) ==
    newState # initialState /\ count = 0

\* part_007 dispatch and part_005 update broadcast unconditionally.
plainNotifies(initialState, newState) == TRUE

machineNotifies(initialState, newState) == TRUE

\* part_004 / part_006: finally { dispatchDepth -= 1; }
finallySkipped(depth) == depth

finallyDepth(depth) == depth - 1

\* ------------------------------------------------------------- call stack
Top == stack[Len(stack)]
Rest == SubSeq(stack, 1, Len(stack) - 1)

\* The re-entrancy counter of the running variant.
Counter == dispatchDepth + debounced

\* User code that may call into the store is running on top of the stack:
\* the test harness (empty stack), an action body, a wrapped function or a
\* listener callback.
UserCode == IF stack = <<>> THEN TRUE ELSE Top.pc \in {"action", "body"}

CanCall(room) ==
    /\ ~exc
    /\ UserCode
    /\ ops < MaxOps
    /\ Len(stack) + room <= MaxStack

\* An action body or a wrapped function is on the stack (not yet returned).
Busy(stk) == \E n \in 1..Len(stk) : stk[n].pc \in {"action", "body"} /\ stk[n].k # "listener"

\* The stack once the code on top of it has made one more call into the store.
Called ==
    IF stack = <<>> THEN stack
    ELSE [stack EXCEPT ![Len(stack)].made = stack[Len(stack)].made + 1]

\* The invocation log restarts with each call made by the harness.
Base == IF stack = <<>> THEN <<>> ELSE calls

Reentry == IF stack = <<>> THEN FALSE ELSE reentered \/ Top.k = "listener"

Invocation(l, s, cause, stk) ==
    [l |-> l, s |-> s, cause |-> cause, cnt |-> Counter, busy |-> Busy(stk)]

Frame(k, op, act, pc, init, l, cause, entry) ==
    [k |-> k, op |-> op, act |-> act, pc |-> pc, init |-> init, i |-> 1,
     len |-> Len(listeners), l |-> l, cause |-> cause, at |-> Len(Base),
     entry |-> entry, threw |-> FALSE, top |-> stack = <<>>, before |-> listeners,
     made |-> 0, ret |-> init]

ListenerFrame(l, cause) ==
    [k |-> "listener", op |-> "subscribe", act |-> "none", pc |-> "body",
     init |-> state, i |-> 1, len |-> 0, l |-> l, cause |-> cause,
     at |-> Len(Base), entry |-> Counter, threw |-> FALSE, top |-> stack = <<>>,
     before |-> listeners, made |-> 0, ret |-> state]

\* The summary of a completed call of the store API.
Done(op, act, l, top, entry, exit, init, ret, final, at, till, before, after, threw, made, had) ==
    [op |-> op, act |-> act, l |-> l, top |-> top, entry |-> entry, exit |-> exit,
     init |-> init, ret |-> ret, final |-> final, at |-> at, till |-> till,
     before |-> before, after |-> after, threw |-> threw, made |-> made, had |-> had]

NoDone ==
    Done("none", "none", "none", FALSE, 0, 0, UNDEFINED, UNDEFINED, UNDEFINED, 0, 0,
         <<>>, <<>>, FALSE, 0, 0)

\* The summary of the last call is dropped when the harness makes a new call.
Pending == IF stack = <<>> THEN NoDone ELSE done

\* The call whose frame f is being popped, completing (or throwing).
DoneOf(f, exit, final, threw) ==
    Done(f.op, f.act, f.l, f.top, f.entry, exit, f.init, f.ret, final, f.at, Len(calls),
         f.before, listeners, threw, f.made, 0)

\* A call made by the caller on top of the stack that completes at once.
DoneNow(op, act, l, final, after, threw) ==
    Done(op, act, l, stack = <<>>, Counter, Counter, state, final, final, Len(Base),
         Len(Base),
         listeners, after, threw, 0, IF l \in ListenerIds THEN live[l] ELSE 0)

\* The broadcast of a frame: listeners.forEach(listener => listener(state)).
\* forEach fixes the length when it starts and visits only the indices that
\* are still present when it reaches them.
StartBroadcast(f, r) ==
    [f EXCEPT !.pc = "notify", !.i = 1, !.len = Len(listeners), !.ret = r]

\* ------------------------------------------------------------- initial state
Init ==
    /\ variant \in Variants
    /\ middlewareList \in {<<>>, <<"asyncActionMiddleware">>}
    /\ variant \in {"depth", "machine"} => middlewareList = <<>>
    /\ state = UNDEFINED
    /\ listeners = <<>>
    /\ dispatchDepth = 0
    /\ debounced = 0
    /\ stack = <<>>
    /\ exc = FALSE
    /\ handles = {}
    /\ nextRef = 1
    /\ ops = 0
    /\ calls = <<>>
    /\ done = NoDone
    /\ reentered = FALSE
    /\ live = [l \in ListenerIds |-> 0]
    /\ previous = <<>>
    /\ trace = <<>>
    /\ tasks = <<>>
    /\ history = <<>>
    /\ heap = <<>>
    /\ actionCreators = <<>>

\* ------------------------------------------------------------- subscribe / unsubscribe
\* subscribe(listener): push, call the listener with the current state; the
\* unsubscribe function is returned when the listener has returned.
Subscribe(l) ==
    /\ CanCall(1)
    /\ Len(listeners) < MaxListeners
    /\ listeners' = push(listeners, l)
    /\ stack' = Append(Called, ListenerFrame(l, "subscribe"))
    /\ live' = [live EXCEPT ![l] = live[l] + 1]
    /\ calls' = Append(Base, Invocation(l, state, "subscribe", stack))
    /\ reentered' = Reentry
    /\ ops' = ops + 1
    /\ done' = Pending
    /\ UNCHANGED <<variant, middlewareList, previous, heap, actionCreators, trace, tasks, history, state, dispatchDepth, debounced, exc,
                   handles, nextRef>>

\* Calling an unsubscribe function returned by subscribe(l).
Unsubscribe(l) ==
    /\ CanCall(0)
    /\ l \in handles
    /\ listeners' = IF variant = "machine"
                    THEN machineUnsubscribe(listeners, l)
                    ELSE createUnsubscribe(listeners, l)
    /\ done' = DoneNow("unsubscribe", "none", l, state, listeners', FALSE)
    /\ calls' = Base
    /\ reentered' = Reentry
    /\ ops' = ops + 1
    /\ stack' = Called
    /\ live' = [live EXCEPT ![l] = IF live[l] > 0 THEN live[l] - 1 ELSE 0]
    /\ UNCHANGED <<variant, middlewareList, previous, heap, actionCreators, trace, tasks, history, state, dispatchDepth, debounced,
                   exc, handles, nextRef>>

\* ------------------------------------------------------------- broadcast
\* The argument of one listener call of the broadcast of frame f, had the
\* arrow function captured the state the dispatch assigned.
deliveredAtStart(f) == f.ret

\* listener => listener(state): the arrow function reads the store's state
\* variable when forEach calls it, not when the broadcast began.
delivered(f) == state

\* One turn of listeners.forEach: call the next listener with the current
\* state, or finish the call that broadcasts.
NotifyNext ==
    /\ ~exc
    /\ stack # <<>>
    /\ Top.pc = "notify"
    /\ LET f == Top IN
       IF f.i <= f.len /\ f.i <= Len(listeners)
       THEN /\ stack' = Append(Append(Rest, [f EXCEPT !.i = f.i + 1]),
                               ListenerFrame(listeners[f.i], "broadcast"))
            /\ calls' = Append(calls, Invocation(listeners[f.i], delivered(f), "broadcast", stack))
            /\ UNCHANGED <<done, exc>>
       ELSE /\ stack' = Rest
            /\ done' = DoneOf(f, Counter, state, f.threw)
            /\ exc' = (f.threw /\ Rest # <<>>)
            /\ UNCHANGED calls
    /\ UNCHANGED <<variant, middlewareList, previous, heap, actionCreators, trace, tasks, history, state, listeners, dispatchDepth, debounced,
                   handles, nextRef, ops, reentered, live>>

\* ------------------------------------------------------------- dispatch
\* What a dispatch made by the code on top of the stack leaves unchanged.
DispatchFrame ==
    /\ ops' = ops + 1
    /\ reentered' = Reentry
    /\ UNCHANGED <<variant, middlewareList, previous, heap, actionCreators, trace, tasks, history, listeners, handles, live>>

\* The dispatched value is rejected, or the action throws: nothing is assigned.
ThrownLate(a) ==
    /\ exc' = (stack # <<>>)
    /\ state' = UNDEFINED
    /\ done' = DoneNow("dispatch", a, "none", UNDEFINED, listeners, TRUE)
    /\ calls' = Base
    /\ stack' = Called
    /\ UNCHANGED <<nextRef, dispatchDepth, debounced>>

Thrown(a) ==
    /\ exc' = (stack # <<>>)
    /\ done' = DoneNow("dispatch", a, "none", state, listeners, TRUE)
    /\ calls' = Base
    /\ stack' = Called
    /\ UNCHANGED <<state, nextRef, dispatchDepth, debounced>>

\* A pure action ran: state = action(state), then the broadcast (when the
\* variant's gate, notifies, allows it) or the return.
Applied(a, k, notifies) ==
    LET r == ActionResult(a, state, nextRef) IN
    /\ a = "set" => nextRef <= MaxRefs
    /\ state' = r
    /\ nextRef' = IF a = "set" THEN nextRef + 1 ELSE nextRef
    /\ calls' = Base
    /\ IF notifies
       THEN /\ stack' = Append(Called, StartBroadcast(
                            Frame(k, "dispatch", a, "notify", state, "none", "none", Counter),
                            r))
            /\ done' = Pending
       ELSE /\ done' = DoneNow("dispatch", a, "none", r, listeners, FALSE)
            /\ stack' = Called
    /\ UNCHANGED <<exc, dispatchDepth, debounced>>

\* part_004 / part_006 createStore.dispatch.  A pure action runs to its return
\* inside the step (dispatchDepth goes up and comes back down around it); the
\* function-style async action stays on the stack while its body runs.
DispatchDepth(a) ==
    /\ variant = "depth"
    /\ CanCall(2)
    /\ a \in Values(variant)
    /\ DispatchFrame
    /\ IF ~isFunction(a) \/ a = "throw"
       THEN Thrown(a)
       ELSE IF a \in PureActions
       THEN Applied(a, "dispatch",
                    depthNotifies(state, ActionResult(a, state, nextRef), dispatchDepth))
       ELSE /\ dispatchDepth' = dispatchDepth + 1
            /\ stack' = Append(Called, Frame("dispatch", "dispatch", a, "action", state,
                                             "none", "none", Counter))
            /\ calls' = Base
            /\ done' = Pending
            /\ UNCHANGED <<state, nextRef, exc, debounced>>

\* How asyncActionMiddleware calls action._asyncAction:
\*   src/src/index.js  debounce(action._asyncAction)(dispatch, getState)
\*   part_007          action._asyncAction(dispatch, getState)
asyncActionMiddlewareBare(v) == "asyncfn"

asyncActionMiddleware(v) == IF v = "debounce" THEN "debounce" ELSE "asyncfn"

\* debounce(func)(...args) up to the call of func.
EnterDebounce(op, a) ==
    /\ debounced' = debounced + 1
    /\ stack' = Append(Called, Frame("debounce", op, a, "body", state, "none", "none",
                                     Counter))
    /\ calls' = Base
    /\ done' = Pending
    /\ UNCHANGED <<state, nextRef, exc, dispatchDepth>>

\* The async function of an async action is called by the middleware.
RunAsync(a) ==
    IF asyncActionMiddleware(variant) = "debounce"
    THEN EnterDebounce("dispatch", a)
    ELSE /\ stack' = Append(Called, Frame("asyncfn", "dispatch", a, "body", state,
                                          "none", "none", Counter))
         /\ calls' = Base
         /\ done' = Pending
         /\ UNCHANGED <<state, nextRef, exc, dispatchDepth, debounced>>

\* src/src/index.js: the dispatch of enhanceStore, that is asyncActionMiddleware
\* (when installed), then defaultResolve, then createStore.dispatch.
DispatchDebounce(a) ==
    /\ variant = "debounce"
    /\ CanCall(2)
    /\ a \in Values(variant)
    /\ DispatchFrame
    /\ IF middlewareList # <<>> /\ isAsyncAction(a)
       THEN RunAsync(a)
       ELSE IF ~isFunction(a) \/ a = "throw"
       THEN Thrown(a)
       ELSE Applied(a, "dispatch",
                    notify(state, ActionResult(a, state, nextRef), debounced))

\* src/src/index.js: a call of store.debounce(func) by user code.
DebounceCall ==
    /\ variant = "debounce"
    /\ CanCall(2)
    /\ DispatchFrame
    /\ EnterDebounce("debounce", "func")

\* part_007: asyncActionMiddleware calls action._asyncAction(dispatch, getState)
\* directly; createStore.dispatch broadcasts after every action.
DispatchPlain(a) ==
    /\ variant = "plain"
    /\ CanCall(2)
    /\ a \in Values(variant)
    /\ DispatchFrame
    /\ IF middlewareList # <<>> /\ isAsyncAction(a)
       THEN RunAsync(a)
       ELSE IF ~isFunction(a) \/ a = "throw"
       THEN Thrown(a)
       ELSE Applied(a, "dispatch",
                    plainNotifies(state, ActionResult(a, state, nextRef)))

\* part_005: update = createUpdate(baseUpdate, baseResolver).
UpdateMachine(a) ==
    /\ variant = "machine"
    /\ CanCall(2)
    /\ a \in Values(variant)
    /\ DispatchFrame
    /\ IF ~isFunction(a) \/ a = "throw"
       THEN Thrown(a)
       ELSE Applied(a, "dispatch",
                    machineNotifies(state, ActionResult(a, state, nextRef)))

\* ------------------------------------------------------------- returns
\* The user code on top of the stack returns to the store code that called it.
Return ==
    /\ ~exc
    /\ stack # <<>>
    /\ Top.pc \in {"action", "body"}
    /\ LET f == Top IN
       CASE f.k = "listener" ->
              \* subscribe returns createUnsubscribe(listeners, listener)
              /\ stack' = Rest
              /\ handles' = IF f.cause = "subscribe" THEN handles \cup {f.l} ELSE handles
              /\ done' = IF f.cause = "subscribe"
                         THEN DoneOf(f, Counter, state, FALSE) ELSE done
              /\ UNCHANGED <<state, nextRef, dispatchDepth, debounced>>
         [] f.k = "dispatch" ->
              \* state = action(...): createAsyncAction returns getState(), setState
              \* a fresh object; then finally and the gate
              /\ f.act = "setNested" => nextRef <= MaxRefs
              /\ state' = IF f.act = "setNested" THEN nextRef ELSE state
              /\ nextRef' = IF f.act = "setNested" THEN nextRef + 1 ELSE nextRef
              /\ dispatchDepth' = finallyDepth(dispatchDepth)
              /\ IF depthNotifies(f.init, state', dispatchDepth')
                 THEN stack' = Append(Rest, StartBroadcast(f, state')) /\ UNCHANGED done
                 ELSE /\ stack' = Rest
                      /\ done' = DoneOf([f EXCEPT !.ret = state'], Counter - 1, state', FALSE)
              /\ UNCHANGED <<handles, debounced>>
         [] f.k = "debounce" ->
              \* finally { debounced -= 1; notify(initialState, state); }
              /\ debounced' = debounced - 1
              /\ IF notify(f.init, state, debounced')
                 THEN stack' = Append(Rest, StartBroadcast(f, state)) /\ UNCHANGED done
                 ELSE /\ stack' = Rest
                      /\ done' = DoneOf([f EXCEPT !.ret = state], Counter - 1, state, FALSE)
              /\ UNCHANGED <<state, nextRef, handles, dispatchDepth>>
         [] f.k = "asyncfn" ->
              /\ stack' = Rest
              /\ done' = DoneOf([f EXCEPT !.ret = state], Counter, state, FALSE)
              /\ UNCHANGED <<state, nextRef, handles, dispatchDepth, debounced>>
    /\ UNCHANGED <<variant, middlewareList, previous, heap, actionCreators, trace, tasks, history, listeners, exc, ops, calls, reentered, live>>

\* An action body or a wrapped function throws.
Throw ==
    /\ ~exc
    /\ stack # <<>>
    /\ Top.pc \in {"action", "body"}
    /\ Top.k # "listener"
    /\ exc' = TRUE
    /\ UNCHANGED <<variant, middlewareList, previous, heap, actionCreators, trace, tasks, history, state, listeners, dispatchDepth, debounced,
                   stack, handles, nextRef, ops, calls, done, reentered, live>>

\* The exception leaves the frame on top of the stack: its finally block runs.
\* The harness catches what reaches it.
Unwind ==
    /\ exc
    /\ stack # <<>>
    /\ LET f == Top IN
       CASE f.k = "dispatch" /\ f.pc = "action" ->
              \* finally { dispatchDepth -= 1; }  the assignment to state is skipped
              /\ dispatchDepth' = finallyDepth(dispatchDepth)
              /\ stack' = Rest
              /\ exc' = (Rest # <<>>)
              /\ done' = DoneOf(f, dispatchDepth', state, TRUE)
              /\ UNCHANGED debounced
         [] f.k = "debounce" /\ f.pc = "body" ->
              \* finally { debounced -= 1; notify(initialState, state); } then rethrow
              /\ debounced' = debounced - 1
              /\ IF notify(f.init, state, debounced')
                 THEN /\ stack' = Append(Rest, [StartBroadcast(f, state) EXCEPT !.threw = TRUE])
                      /\ exc' = FALSE
                      /\ UNCHANGED done
                 ELSE /\ stack' = Rest
                      /\ exc' = (Rest # <<>>)
                      /\ done' = DoneOf(f, Counter - 1, state, TRUE)
              /\ UNCHANGED dispatchDepth
         [] OTHER ->
              \* a listener, a broadcast or a bare async function: no handler
              /\ stack' = Rest
              /\ exc' = (Rest # <<>>)
              /\ done' = IF f.k = "listener" /\ f.cause # "subscribe"
                         THEN done ELSE DoneOf(f, Counter, state, TRUE)
              /\ UNCHANGED <<dispatchDepth, debounced>>
    /\ UNCHANGED <<variant, middlewareList, previous, heap, actionCreators, trace, tasks, history, state, listeners, handles, nextRef, ops,
                   calls, reentered, live>>

\* ------------------------------------------------------------- specification
Next ==
    \/ \E l \in ListenerIds : Subscribe(l)
    \/ \E l \in ListenerIds : Unsubscribe(l)
    \/ \E a \in Values("depth") : DispatchDepth(a)
    \/ \E a \in Values("debounce") : DispatchDebounce(a)
    \/ DebounceCall
    \/ \E a \in Values("plain") : DispatchPlain(a)
    \/ \E a \in Values("machine") : UpdateMachine(a)
    \/ NotifyNext
    \/ Return
    \/ Throw
    \/ Unwind

Spec == Init /\ [][Next]_vars

\* ------------------------------------------------------------- pipeline: values
\* The middleware pipeline is modelled apart from the listener registry: its
\* specification (SpecPipeline) starts from a store built by applyMiddleware
\* whose one listener writes to history, as the test harness does.
\*
\* A dispatched value: a plain function (arg n > 0 is replaceState(n), arg 0 is
\* state => state), a value that is not an action, or a composite whose items
\* are the values it hands to the self-dispatch handle, in order: the elements
\* of an iterator, the value a promise fulfils with, the emissions of an
\* observable, the dispatches made by the function of an async action.
Value(kind, arg, items) == [kind |-> kind, arg |-> arg, items |-> items]

replaceState(obj) == Value("function", obj, <<>>)

identity == Value("function", 0, <<>>)

notAction == Value("notfn", 0, <<>>)

chainActions(actions) == Value("iterator", 0, actions)

promiseOf(action) == Value("promise", 0, <<action>>)

observableOf(actions) == Value("observable", 0, actions)

createAsyncAction(dispatches) == Value("asyncObj", 0, dispatches)

isFunctionValue(value) == value.kind = "function"

\* A probe that also accepts plain functions.
isIteratorOrFunction(value) == value.kind \in {"iterator", "function"}

isIterator(value) == value.kind = "iterator"

\* A probe that recognises nothing.
isPromiseNever(value) == FALSE

isPromise(value) == value.kind = "promise"

\* A probe that recognises nothing.
isObservableNever(value) == FALSE

isObservable(value) == value.kind = "observable"

\* A probe that recognises nothing.
isAsyncActionNever(value) == FALSE

isAsyncActionValue(value) == value.kind = "asyncObj"

\* The actions a composite hands to the self-dispatch handle, last first.
producedReversed(action) ==
    [i \in 1..Len(action.items) |-> action.items[Len(action.items) + 1 - i]]

\* The actions a composite hands to the self-dispatch handle, in order:
\* Array.from(action), the value of a promise, the emissions of an observable,
\* the dispatch calls of an async action.
produced(action) == action.items

\* action(state) for a plain function value.
apply(action, s) == IF action.arg = 0 THEN s ELSE action.arg

\* Two replaceState actions, in either order.
Actions12 ==
    {<<replaceState(1), replaceState(2)>>, <<replaceState(2), replaceState(1)>>}

PlainValues == {replaceState(1), replaceState(2), identity, notAction}

\* The values the harness dispatches, per variant; composites nest one level.
PipelineValues(v) ==
    IF v = "machine"
    THEN PlainValues
         \cup {chainActions(s) : s \in Actions12 \cup {<<>>, <<replaceState(1), identity>>}}
         \cup {promiseOf(replaceState(1)), promiseOf(notAction)}
         \cup {observableOf(<<replaceState(1), replaceState(2)>>)}
         \cup {chainActions(<<promiseOf(replaceState(2)), replaceState(1)>>),
               chainActions(<<notAction, replaceState(1)>>),
               promiseOf(chainActions(<<replaceState(1), replaceState(2)>>)),
               observableOf(<<chainActions(<<replaceState(2)>>), replaceState(1)>>)}
    ELSE PlainValues
         \cup {createAsyncAction(s) : s \in Actions12 \cup {<<>>}}
         \cup {createAsyncAction(<<createAsyncAction(<<replaceState(2)>>), replaceState(1)>>),
               createAsyncAction(<<replaceState(1), notAction>>)}

\* ------------------------------------------------------------- pipeline: composition
\* A stage of a dispatch function: the middleware at position pos of the list
\* given to the applyMiddleware call number layer (layer 0: the store's own
\* stages).  self is the dispatch function its self-dispatch handle re-enters
\* (the number of the applyMiddleware call that bound it).
Stage(layer, pos, mw) == [layer |-> layer, pos |-> pos, mw |-> mw, self |-> 0]

\* A dispatch function, a resolve and a middleware are each the sequence of
\* stages an action goes through before the supplied next.
stagesOf(list, layer) == [i \in 1..Len(list) |-> <<Stage(layer, i, list[i])>>]

bound(resolve, self) == [i \in 1..Len(resolve) |-> [resolve[i] EXCEPT !.self = self]]

\* m1(m2): the function that runs m1 with m2 as its next.
bindReversed(m1, m2) == m2 \o m1

bind(m1, m2) == m1 \o m2

\* src/src/index.js, part_007:
\*   next => boundMiddlewareList.reduceRight((m2, m1) => m1(m2), next)
RECURSIVE reduceMiddleware(_, _)
reduceMiddleware(boundMiddlewareList, next) ==
    IF boundMiddlewareList = <<>> THEN next
    ELSE LET n == Len(boundMiddlewareList)
         IN  reduceMiddleware(SubSeq(boundMiddlewareList, 1, n - 1),
                              bind(boundMiddlewareList[n], next))

defaultResolve == <<Stage(0, 0, "defaultResolve")>>

createStore == [resolve |-> defaultResolve, dispatch |-> <<Stage(0, 0, "dispatch")>>]

\* dispatch = resolve({getState, resolve, dispatch: action => dispatch(action)})(baseDispatch)
enhanceStore(store, self) ==
    [resolve |-> store.resolve,
     dispatch |-> bind(bound(store.resolve, self), store.dispatch)]

\* An applyMiddleware that builds on a fresh store instead of the one given.
applyMiddlewareReplacing(list, layer, store) ==
    enhanceStore([resolve |-> reduceMiddleware(stagesOf(list, layer) \o <<defaultResolve>>, <<>>),
                  dispatch |-> createStore.dispatch],
                 layer)

\* resolve = reduceMiddleware([...middlewareList, baseResolve]); enhanceStore({resolve, ...store})
applyMiddleware(list, layer, store) ==
    enhanceStore([resolve |-> reduceMiddleware(stagesOf(list, layer) \o <<store.resolve>>, <<>>),
                  dispatch |-> store.dispatch],
                 layer)

\* part_005:82
\*   middleware.reduceRight((m1, m2) =>
\*       (resolve, next, action) => m1(resolve, () => m2(resolve, next, action), action))
\* reduceRight without an initial value starts from the last element as its
\* accumulator m1 and visits the others from right to left as m2.
RECURSIVE reduceRightMachine(_, _)
reduceRightMachine(middleware, m1) ==
    IF middleware = <<>> THEN m1
    ELSE LET n == Len(middleware)
         IN  reduceRightMachine(SubSeq(middleware, 1, n - 1), bind(m1, middleware[n]))

machineReduceMiddleware(middleware) ==
    reduceRightMachine(SubSeq(middleware, 1, Len(middleware) - 1), middleware[Len(middleware)])

\* part_005:99 reduceMiddleware([iteratorMiddleware, promiseMiddleware, observableMiddleware])
defaultMiddleware(layer, pos) ==
    machineReduceMiddleware(<<<<Stage(layer, pos, "iteratorMiddleware")>>,
                              <<Stage(layer, pos, "promiseMiddleware")>>,
                              <<Stage(layer, pos, "observableMiddleware")>>>>)

machineStagesOf(list, layer) ==
    [i \in 1..Len(list) |-> IF list[i] = "defaultMiddleware"
                            THEN defaultMiddleware(layer, i)
                            ELSE <<Stage(layer, i, list[i])>>]

\* part_005:32-36: update = action => resolver(update, () => baseUpdate(action), action)
createUpdate(baseUpdate, resolver, self) == bind(bound(resolver, self), baseUpdate)

\* part_005:69-72: createUpdate(action => {...}, baseResolver)
createMachine == createUpdate(<<Stage(0, 0, "baseUpdate")>>, <<Stage(0, 0, "baseResolver")>>, 0)

\* part_005:88
machineApplyMiddleware(list, layer, update) ==
    createUpdate(update, machineReduceMiddleware(machineStagesOf(list, layer)), layer)

\* The dispatch function number self of the store under test: 0 is the store
\* before any applyMiddleware, 1 the store enhanced with the list previous
\* (when there is one), 2 the store enhanced with middlewareList on top.
Dispatch(self) ==
    IF variant = "machine"
    THEN LET u1 == IF previous = <<>> THEN createMachine
                   ELSE machineApplyMiddleware(previous, 1, createMachine)
         IN  CASE self = 0 -> createMachine
               [] self = 1 -> u1
               [] self = 2 -> machineApplyMiddleware(middlewareList, 2, u1)
    ELSE LET s1 == IF previous = <<>> THEN createStore
                   ELSE applyMiddleware(previous, 1, createStore)
         IN  CASE self = 0 -> createStore.dispatch
               [] self = 1 -> s1.dispatch
               [] self = 2 -> applyMiddleware(middlewareList, 2, s1).dispatch

\* ------------------------------------------------------------- pipeline: runs
\* "middleware" stands for a middleware written by the user: for each action
\* it is offered it either calls next(action) or returns without calling it.
StoreMiddleware == {"middleware", "asyncActionMiddleware"}

MachineMiddleware == {"iteratorMiddleware", "promiseMiddleware", "observableMiddleware"}

Lists(S, lo, hi) == UNION {[1..n -> S] : n \in lo..hi}

\* The lists given to applyMiddleware; a built-in of part_005 is installed at
\* most once, by itself or as part of defaultMiddleware.
MiddlewareLists(v) ==
    IF v = "machine"
    THEN {l \in Lists(MachineMiddleware, 1, MaxMiddleware) :
              \A i, j \in 1..Len(l) : l[i] = l[j] => i = j}
         \cup {<<"defaultMiddleware">>}
    ELSE Lists(StoreMiddleware, 1, MaxMiddleware)

Installable(list, before) ==
    /\ Len(list) + Len(before) <= MaxMiddleware
    /\ variant = "machine" =>
           \A i \in 1..Len(list), j \in 1..Len(before) :
               list[i] # before[j] \/ list[i] = "defaultMiddleware"

\* What the pipeline leaves alone: the registry bookkeeping of Spec.
registry == <<listeners, dispatchDepth, handles, nextRef, calls, done, reentered, live>>

config == <<variant, middlewareList, previous, heap, actionCreators>>

\* The runs made since the harness or the host last called into the store are
\* numbered in the order in which they start; trace and history restart then.
RunCount ==
    LET ids == {0} \cup {trace[i].run : i \in 1..Len(trace)}
                   \cup {stack[i].run : i \in 1..Len(stack)}
    IN  CHOOSE n \in ids : \A m \in ids : m <= n

\* One call of dispatch function number self with the given action, made by
\* run number by (0: the harness or the host's task queue).
Run(action, self, by) ==
    [run |-> RunCount + 1, by |-> by, action |-> action, pipe |-> Dispatch(self),
     todo |-> <<>>, self |-> self, k |-> "run", init |-> state]

\* One entry of trace: run number run, started by run number by with the store
\* in state init, offered its action to a stage, which called the next it was
\* given (next) or did not.
Visit(f, next) == [run |-> f.run, by |-> f.by, stage |-> Head(f.pipe), action |-> f.action, init |-> f.init, next |-> next]

Task(kind, items, self) == [kind |-> kind, items |-> items, self |-> self]

\* A queue that keeps what it has run.
WithoutNone(s, i) == s

Without(s, i) == SubSeq(s, 1, i - 1) \o SubSeq(s, i + 1, Len(s))

InitPipeline ==
    /\ variant \in {"debounce", "plain", "machine"}
    /\ middlewareList \in MiddlewareLists(variant)
    /\ previous \in {<<>>} \cup MiddlewareLists(variant)
    /\ Installable(middlewareList, previous)
    /\ state = UNDEFINED
    /\ listeners = <<"l1">>
    /\ history = <<>>
    /\ dispatchDepth = 0
    /\ debounced = 0
    /\ stack = <<>>
    /\ exc = FALSE
    /\ handles = {"l1"}
    /\ nextRef = 1
    /\ ops = 0
    /\ calls = <<>>
    /\ done = NoDone
    /\ reentered = FALSE
    /\ live = [l \in ListenerIds |-> IF l = "l1" THEN 1 ELSE 0]
    /\ trace = <<>>
    /\ tasks = <<>>
    /\ heap = <<>>
    /\ actionCreators = <<>>

\* The harness calls the dispatch (update) of the enhanced store.
PipelineDispatch(a) ==
    /\ stack = <<>>
    /\ ops < MaxDispatches
    /\ a \in PipelineValues(variant)
    /\ stack' = <<[Run(a, 2, 0) EXCEPT !.run = 1]>>
    /\ ops' = ops + 1
    /\ trace' = <<>>
    /\ history' = <<>>
    /\ UNCHANGED <<config, registry, state, debounced, exc, tasks>>

\* The self-dispatch handle is called with the next item of the composite the
\* top run is working through (forEach(resolve), the body of an async action).
SelfDispatch ==
    /\ ~exc
    /\ stack # <<>>
    /\ Top.todo # <<>>
    /\ stack' = Append(Append(Rest, [Top EXCEPT !.todo = Tail(Top.todo)]),
                       Run(Head(Top.todo), Top.self, Top.run))
    /\ UNCHANGED <<config, registry, state, debounced, exc, ops, trace, tasks, history>>

\* The top run's action is offered to the next stage of its dispatch function.
Offer ==
    /\ ~exc
    /\ stack # <<>>
    /\ Top.todo = <<>>
    /\ Top.pipe # <<>>
    /\ LET f == Top
           st == Head(f.pipe)
           a == f.action
           next == Append(Rest, [f EXCEPT !.pipe = Tail(f.pipe)])
           return == Append(Rest, [f EXCEPT !.pipe = <<>>])
           resolveAll == [f EXCEPT !.pipe = <<>>, !.todo = produced(a), !.self = st.self]
       IN
       CASE st.mw = "defaultResolve" ->
              \* next(action)
              /\ stack' = next
              /\ UNCHANGED <<state, debounced, exc, tasks, history>>
         [] st.mw = "middleware" ->
              \* the user's middleware calls next(action), or does not
              /\ stack' = next \/ stack' = return
              /\ UNCHANGED <<state, debounced, exc, tasks, history>>
         [] st.mw = "asyncActionMiddleware" ->
              \* isAsyncAction(action) ? [debounce](action._asyncAction)(dispatch, getState)
              \*                       : next(action)
              /\ IF ~isAsyncActionValue(a)
                 THEN stack' = next /\ UNCHANGED debounced
                 ELSE IF asyncActionMiddleware(variant) = "debounce"
                 THEN /\ stack' = Append(Rest, [resolveAll EXCEPT !.k = "debounce",
                                                                  !.init = state])
                      /\ debounced' = debounced + 1
                 ELSE stack' = Append(Rest, resolveAll) /\ UNCHANGED debounced
              /\ UNCHANGED <<state, exc, tasks, history>>
         [] st.mw = "iteratorMiddleware" ->
              \* isIterator(action) ? Array.from(action).forEach(resolve) : next()
              /\ stack' = IF isIterator(a) THEN Append(Rest, resolveAll) ELSE next
              /\ UNCHANGED <<state, debounced, exc, tasks, history>>
         [] st.mw = "promiseMiddleware" ->
              \* isPromise(action) ? action.then(resolve) : next()
              /\ IF isPromise(a)
                 THEN /\ stack' = return
                      /\ tasks' = Append(tasks, Task("promise", produced(a), st.self))
                 ELSE stack' = next /\ UNCHANGED tasks
              /\ UNCHANGED <<state, debounced, exc, history>>
         [] st.mw = "observableMiddleware" ->
              \* isObservable(action) ? action.forEach(resolve) : next()
              \* the observable emits inside forEach or later, as it chooses
              /\ IF isObservable(a)
                 THEN \/ stack' = Append(Rest, resolveAll) /\ UNCHANGED tasks
                      \/ /\ stack' = return
                         /\ tasks' = Append(tasks, Task("observable", produced(a), st.self))
                 ELSE stack' = next /\ UNCHANGED tasks
              /\ UNCHANGED <<state, debounced, exc, history>>
         [] st.mw = "baseResolver" ->
              \* if (!isFunction(action)) throw ...; next()
              /\ IF isFunctionValue(a)
                 THEN stack' = next /\ UNCHANGED exc
                 ELSE exc' = TRUE /\ UNCHANGED stack
              /\ UNCHANGED <<state, debounced, tasks, history>>
         [] st.mw \in {"dispatch", "baseUpdate"} ->
              \* createStore.dispatch / the base update of createMachine
              /\ IF isFunctionValue(a)
                 THEN LET newState == apply(a, state)
                          told == CASE variant = "debounce" -> notify(state, newState, debounced)
                                    [] variant = "plain" -> plainNotifies(state, newState)
                                    [] variant = "machine" -> machineNotifies(state, newState)
                      IN  /\ state' = newState
                          /\ history' = IF told THEN Append(history, newState) ELSE history
                          /\ stack' = next
                          /\ UNCHANGED exc
                 ELSE exc' = TRUE /\ UNCHANGED <<stack, state, history>>
              /\ UNCHANGED <<debounced, tasks>>
    /\ LET forwarded == /\ Len(Top.pipe) > 1
                        /\ ~exc'
                        /\ stack'[Len(stack')].pipe = Tail(Top.pipe)
       IN  trace' = Append(trace, Visit(Top, forwarded))
    /\ UNCHANGED <<config, registry, ops>>

\* The top run has nothing left to do: it returns to its caller.  A run made
\* through debounce leaves through finally { debounced -= 1; notify(...) }.
PipelineReturn ==
    /\ stack # <<>>
    /\ exc \/ (Top.todo = <<>> /\ Top.pipe = <<>>)
    /\ stack' = Rest
    /\ exc' = (exc /\ Rest # <<>>)
    /\ IF Top.k = "debounce"
       THEN /\ debounced' = debounced - 1
            /\ history' = IF notify(Top.init, state, debounced')
                          THEN Append(history, state) ELSE history
       ELSE UNCHANGED <<debounced, history>>
    /\ UNCHANGED <<config, registry, state, ops, trace, tasks>>

\* The host runs a callback registered by a middleware, with an empty stack:
\* a promise fulfils (in any order among the pending ones), or an observable
\* emits its next value.
Settle(i) ==
    /\ stack = <<>>
    /\ i \in 1..Len(tasks)
    /\ stack' = <<[Run(Head(tasks[i].items), tasks[i].self, 0) EXCEPT !.run = 1]>>
    /\ trace' = <<>>
    /\ history' = <<>>
    /\ tasks' = IF Len(tasks[i].items) = 1 THEN Without(tasks, i)
                ELSE [tasks EXCEPT ![i].items = Tail(tasks[i].items)]
    /\ UNCHANGED <<config, registry, state, debounced, exc, ops>>

NextPipeline ==
    \/ \E a \in PipelineValues("machine") \cup PipelineValues("debounce") : PipelineDispatch(a)
    \/ SelfDispatch
    \/ Offer
    \/ PipelineReturn
    \/ \E i \in 1..Len(tasks) : Settle(i)

SpecPipeline == InitPipeline /\ [][NextPipeline]_vars

\* ------------------------------------------------------------- pipeline: the host
\* A machine with one applyMiddleware call of one middleware (a built-in, or
\* defaultMiddleware as createApp installs it), run by a host that keeps
\* going: JavaScript runs a call to completion, and the task queue runs every
\* callback that is ready once the stack is empty.
InitApp ==
    /\ InitPipeline
    /\ variant = "machine"
    /\ previous = <<>>
    /\ Len(middlewareList) = 1

HostFairness ==
    /\ WF_vars(SelfDispatch)
    /\ WF_vars(Offer)
    /\ WF_vars(PipelineReturn)
    /\ WF_vars(\E i \in 1..Len(tasks) : Settle(i))

SpecApp == InitApp /\ [][NextPipeline]_vars /\ HostFairness

\* ------------------------------------------------------------- observations
\* The listener invocations a completed call made, from its entry to its end.
InvokedBy(d) == SubSeq(calls, d.at + 1, d.till)

BroadcastsBy(d) == SelectSeq(InvokedBy(d), LAMBDA c : c.cause = "broadcast")

ListenersOf(cs) == [n \in 1..Len(cs) |-> cs[n].l]

\* A call made by the harness has completed, and no listener callback called
\* into the store while it ran.
Settled(op) == done.op = op /\ done.top /\ ~reentered

\* A broadcast to every registration, in registration order, with state s.
ToldAll(d, s) ==
    /\ ListenersOf(BroadcastsBy(d)) = d.after
    /\ \A n \in 1..Len(BroadcastsBy(d)) : BroadcastsBy(d)[n].s = s

\* ls without the first occurrence of l.
WithoutFirst(ls, l) ==
    IF \E n \in 1..Len(ls) : ls[n] = l
    THEN LET n == CHOOSE m \in 1..Len(ls) : ls[m] = l /\ \A j \in 1..(m - 1) : ls[j] # l
         IN  [j \in 1..(Len(ls) - 1) |-> IF j < n THEN ls[j] ELSE ls[j + 1]]
    ELSE ls

\* A listener callback has just been entered.
Entered(cause) ==
    /\ stack # <<>>
    /\ Top.k = "listener"
    /\ Top.cause = cause
    /\ Top.made = 0

C4_SubscribeInvokesOnce ==
    /\ Entered("subscribe") =>
           /\ listeners = Append(Top.before, Top.l)
           /\ calls[Len(calls)].l = Top.l
           /\ calls[Len(calls)].s = state
           /\ calls[Len(calls)].cause = "subscribe"
    /\ (Settled("subscribe") /\ ~done.threw) =>
           /\ Len(InvokedBy(done)) = 1
           /\ InvokedBy(done)[1].l = done.l
           /\ InvokedBy(done)[1].s = done.init
           /\ done.after = Append(done.before, done.l)
           /\ done.l \in handles
           /\ (ops = 1 => done.init = UNDEFINED)

C4_Witness ==
    /\ Settled("subscribe")
    /\ Len(done.before) = 2
    /\ done.init # UNDEFINED
    /\ done.l = "l1"
    /\ done.before[1] = "l2"

C6_SameStateIsSilent ==
    (variant \in {"depth", "debounce"} /\ done.op = "dispatch" /\ done.act \in PureActions
        /\ ~done.threw /\ done.ret = done.init)
    => InvokedBy(done) = <<>> /\ done.final = done.init

C6_Witness ==
    /\ variant \in {"depth", "debounce"}
    /\ done.op = "dispatch"
    /\ done.act = "id"
    /\ done.entry = 0
    /\ state # UNDEFINED
    /\ state = done.final
    /\ Len(listeners) = 2

\* C7: in createMachine.update and in the counter-less createStore.dispatch, a
\* dispatch whose action returns the state it was given invokes no listener.
C7_SameStateIsSilentUngated ==
    (variant \in {"machine", "plain"} /\ done.op = "dispatch" /\ done.act \in PureActions
        /\ ~done.threw /\ done.ret = done.init)
    => InvokedBy(done) = <<>> /\ done.final = done.init

\* C8: in createStore, a listener whose subscriptions have all been
\* unsubscribed is not invoked by any broadcast, and an unsubscribe call
\* removes that listener's first registration and keeps every other one, in
\* order, so the others are still told.
C8_UnsubscribedNotInvoked ==
    variant # "machine" =>
        /\ Entered("broadcast") => live[Top.l] > 0
        /\ (done.op = "unsubscribe" /\ done.had > 0) =>
               done.after = WithoutFirst(done.before, done.l)
        /\ (Settled("dispatch") /\ done.act = "set" /\ done.entry = 0) =>
               \A l \in ListenerIds :
                   live[l] > 0 <=> \E n \in 1..Len(BroadcastsBy(done)) :
                                      BroadcastsBy(done)[n].l = l

C8_Witness ==
    /\ variant = "debounce"
    /\ Settled("dispatch")
    /\ done.act = "set"
    /\ "l1" \in handles
    /\ live["l1"] = 0
    /\ ListenersOf(BroadcastsBy(done)) = <<"l2">>

C10_MachineUnsubscribeTwiceIsNoOp ==
    (variant = "machine" /\ done.op = "unsubscribe" /\ done.had = 0)
    => done.after = done.before

\* C11: a dispatch of a value that is not callable and that no installed
\* middleware recognises raises to its caller at once: the call ends by
\* throwing inside the step that made it, the exception is propagating in the
\* caller (the harness catches what reaches it), the state cell keeps its
\* reference and the call has invoked no listener.  (done is the summary of
\* the last completed call; a step that leaves it alone with frames on the
\* stack is some other call.)
C11_Invalid(a) == a = "notfn" \/ (a = "asyncObj" /\ middlewareList = <<>>)

C11_InvalidActionRaises ==
    /\ [](done.op = "dispatch" /\ C11_Invalid(done.act)
            => done.threw /\ done.final = done.init /\ InvokedBy(done) = <<>>)
    /\ [][(ops' = ops + 1 /\ done'.op = "dispatch" /\ C11_Invalid(done'.act)
              /\ (done' # done \/ stack = <<>>))
            => /\ state' = state
               /\ exc' = (stack # <<>>)
               /\ Len(stack') = Len(stack)
               /\ done'.threw]_vars

C11_Witness ==
    /\ done.op = "dispatch"
    /\ done.act = "notfn"
    /\ done.threw
    /\ state # UNDEFINED
    /\ Len(listeners) = 2
    /\ stack = <<>>

\* C12: in the dispatchDepth store, when the action of a dispatch throws, the
\* step that leaves the dispatch assigns nothing to the state cell (what
\* completed nested dispatches left stays, no rollback), takes the counter
\* back to its value at entry and hands the exception to the caller; with the
\* harness back in control the counter is zero, and its next dispatch that
\* changes the state starts a broadcast to the whole registry.
C12_Leaving == variant = "depth" /\ exc /\ stack # <<>> /\ Top.k = "dispatch" /\ Top.pc = "action"

C12_ThrowingActionRestores ==
    /\ []((variant = "depth" /\ done.op = "dispatch" /\ done.threw /\ isFunction(done.act))
            => done.exit = done.entry)
    /\ []((variant = "depth" /\ stack = <<>>) => dispatchDepth = 0)
    /\ [][C12_Leaving
            => /\ state' = state
               /\ dispatchDepth' = Top.entry
               /\ done'.threw /\ done'.final = state
               /\ exc' = (Len(stack) > 1)]_vars
    /\ [][(variant = "depth" /\ ops' = ops + 1 /\ done'.op = "dispatch" /\ done'.act = "throw")
            => /\ state' = state
               /\ dispatchDepth' = dispatchDepth
               /\ exc' = (stack # <<>>)
               /\ done'.threw]_vars
    /\ [][(variant = "depth" /\ stack = <<>> /\ done.op = "dispatch" /\ done.threw
             /\ ops' = ops + 1 /\ state' # state)
            => /\ stack' # <<>>
               /\ stack'[1].pc = "notify"
               /\ stack'[1].len = Len(listeners)]_vars

C12_Witness ==
    /\ variant = "depth"
    /\ stack = <<>>
    /\ done.op = "dispatch"
    /\ done.act = "asyncFn"
    /\ done.threw
    /\ done.top
    /\ done.made = 1
    /\ done.final # done.init
    /\ state = done.final
    /\ dispatchDepth = 0
    /\ Len(listeners) = 1

\* C13: in the dispatchDepth store, an outermost dispatch that ends with the
\* counter back at zero and a state that differs from the state at its start
\* has told every registration exactly once, whether or not its action threw
\* after nested dispatches had changed the state.
C13_NotifiedEvenWhenThrown ==
    (variant = "depth" /\ Settled("dispatch") /\ done.entry = 0 /\ done.final # done.init)
    => ToldAll(done, done.final)

\* The stages run number r has been offered to so far, in order.
VisitsOf(r) == SelectSeq(trace, LAMBDA v : v.run = r)

RunsSeen == {trace[i].run : i \in 1..Len(trace)}

\* Run number r is still on the call stack, about to be offered to stage st.
Awaits(r, st) ==
    \E i \in 1..Len(stack) :
        stack[i].run = r /\ stack[i].pipe # <<>> /\ Head(stack[i].pipe) = st

\* The order C14 gives for applyMiddleware(m1, .., mn) on a fresh store.
C14_Order ==
    LET n == Len(middlewareList)
    IN  [k \in 1..(n + 2) |->
            CASE k <= n -> [layer |-> 2, pos |-> k, mw |-> middlewareList[k], self |-> 2]
              [] k = n + 1 -> [layer |-> 0, pos |-> 0, mw |-> "defaultResolve", self |-> 2]
              [] OTHER -> [layer |-> 0, pos |-> 0, mw |-> "dispatch", self |-> 0]]

\* C14: in src/src/index.js and part_007, with applyMiddleware(m1, .., mn) on a
\* fresh store, every dispatched action is offered to m1 first, the next of
\* each middleware invokes the following one, the next of the last reaches the
\* base resolve and then the base dispatch, each with the same action; a
\* stage is only offered the action when the stage before it called next.
C14_MiddlewareInListOrder ==
    (variant \in {"debounce", "plain"} /\ previous = <<>>) =>
        \A r \in RunsSeen :
            LET vs == VisitsOf(r)
                n == Len(vs)
            IN  /\ n <= Len(C14_Order)
                /\ \A k \in 1..n :
                       /\ vs[k].stage = C14_Order[k]
                       /\ vs[k].action = vs[1].action
                       /\ k > 1 => vs[k - 1].next
                /\ vs[n].next => n < Len(C14_Order) /\ Awaits(r, C14_Order[n + 1])
                /\ ~vs[n].next =>
                       exc \/ ~\E i \in 1..Len(stack) : stack[i].run = r /\ stack[i].pipe # <<>>

\* Three user middleware each called next and the action reached dispatch.
C14_Witness ==
    /\ variant = "debounce"
    /\ previous = <<>>
    /\ middlewareList = <<"middleware", "middleware", "middleware">>
    /\ Len(VisitsOf(1)) = 5
    /\ VisitsOf(1)[5].stage.mw = "dispatch"
    /\ VisitsOf(1)[5].action = replaceState(1)
    /\ state = 1

\* The second of three middleware did not call next: nothing after it ran.
C14_WitnessShortCircuit ==
    /\ variant = "plain"
    /\ previous = <<>>
    /\ middlewareList = <<"middleware", "middleware", "middleware">>
    /\ stack = <<>>
    /\ ops = 1
    /\ Len(trace) = 2
    /\ ~trace[2].next
    /\ trace[2].action = replaceState(1)
    /\ state = UNDEFINED

\* The order C15 gives for applyMiddleware([m1, .., mn], createMachine().update).
C15_Order ==
    (IF middlewareList = <<"defaultMiddleware">>
     THEN <<"iteratorMiddleware", "promiseMiddleware", "observableMiddleware">>
     ELSE middlewareList) \o <<"baseResolver", "baseUpdate">>

\* C15: in part_005, the middleware made by reduceMiddleware([m1, .., mn])
\* offers every action to m1 first, the next of each middleware invokes the
\* following one and the next of the last invokes the supplied next;
\* defaultMiddleware probes iterator, then promise, then observable.
C15_MachineMiddlewareInListOrder ==
    (variant = "machine" /\ previous = <<>>) =>
        \A r \in RunsSeen :
            LET vs == VisitsOf(r)
            IN  /\ Len(vs) <= Len(C15_Order)
                /\ \A k \in 1..Len(vs) : vs[k].stage.mw = C15_Order[k]

\* Middleware mw intercepts action a instead of calling next.
Intercepts(mw, a) ==
    \/ mw = "asyncActionMiddleware" /\ isAsyncActionValue(a)
    \/ mw \in {"iteratorMiddleware", "defaultMiddleware"} /\ isIterator(a)
    \/ mw \in {"promiseMiddleware", "defaultMiddleware"} /\ isPromise(a)
    \/ mw \in {"observableMiddleware", "defaultMiddleware"} /\ isObservable(a)

Handles(list, a) == \E i \in 1..Len(list) : Intercepts(list[i], a)

\* C16: applyMiddleware on a store that already has middleware composes with
\* it: a run of the resulting dispatch goes through the newly added
\* middleware before any stage installed earlier, an action that reaches the
\* base dispatch went through every new and every previously installed
\* middleware, and no action that a previously installed middleware
\* intercepts reaches the base stages.
C16_ComposesWithPrevious ==
    previous # <<>> =>
        \A r \in RunsSeen :
            LET vs == VisitsOf(r)
            IN  vs[1].stage.layer = 2 =>
                  /\ \A j, k \in 1..Len(vs) :
                         (vs[j].stage.layer = 2 /\ vs[k].stage.layer < 2) => j < k
                  /\ \A k \in 1..Len(vs) :
                         vs[k].stage.mw \in {"dispatch", "baseUpdate"} =>
                           /\ \A i \in 1..Len(middlewareList) :
                                  \E j \in 1..(k - 1) :
                                      vs[j].stage.layer = 2 /\ vs[j].stage.pos = i
                           /\ \A i \in 1..Len(previous) :
                                  \E j \in 1..(k - 1) :
                                      vs[j].stage.layer = 1 /\ vs[j].stage.pos = i
                  /\ \A k \in 1..Len(vs) :
                         vs[k].stage.mw \in {"dispatch", "baseUpdate", "baseResolver"} =>
                             ~Handles(previous, vs[k].action)

\* A store with asyncActionMiddleware was enhanced with a user middleware: an
\* async action passed the new middleware and was resolved by the old one.
C16_Witness ==
    /\ variant = "debounce"
    /\ previous = <<"asyncActionMiddleware">>
    /\ middlewareList = <<"middleware">>
    /\ stack = <<>>
    /\ state = 2
    /\ Len(VisitsOf(1)) = 2
    /\ VisitsOf(1)[1].stage.layer = 2
    /\ VisitsOf(1)[1].next
    /\ VisitsOf(1)[2].stage.layer = 1
    /\ VisitsOf(1)[2].stage.mw = "asyncActionMiddleware"
    /\ VisitsOf(1)[2].action = createAsyncAction(<<replaceState(1), replaceState(2)>>)

BuiltIn == {"iteratorMiddleware", "promiseMiddleware", "observableMiddleware"}

\* The capability each built-in middleware of part_005 probes for.
Capability(mw, a) ==
    CASE mw = "iteratorMiddleware" -> a.kind = "iterator"
      [] mw = "promiseMiddleware" -> a.kind = "promise"
      [] mw = "observableMiddleware" -> a.kind = "observable"

OnStack(r) == \E i \in 1..Len(stack) : stack[i].run = r

\* What the built-in middleware have done so far.
C17_Probed ==
    variant = "machine" =>
        /\ \A i \in 1..Len(trace) :
               trace[i].stage.mw \in BuiltIn =>
                   (trace[i].next <=> ~Capability(trace[i].stage.mw, trace[i].action))
        /\ \A i \in 1..Len(trace) :
               trace[i].by # 0 =>
                   \E j \in 1..(i - 1) :
                       /\ trace[j].run = trace[i].by
                       /\ trace[j].stage.mw \in BuiltIn
                       /\ Capability(trace[j].stage.mw, trace[j].action)
        /\ \A r \in RunsSeen :
               LET vs == VisitsOf(r)
                   base == {k \in 1..Len(vs) : vs[k].stage.mw = "baseUpdate"}
               IN  vs[1].action.kind = "function" =>
                       /\ Cardinality(base) <= 1
                       /\ \A k \in 1..Len(vs) : vs[k].action = vs[1].action
                       /\ ~OnStack(r) => Cardinality(base) = 1

\* A built-in middleware offered a value without its capability neither
\* calls resolve nor registers it as a callback.
C17_FallsThrough ==
    (/\ variant = "machine"
     /\ Len(trace') = Len(trace) + 1
     /\ trace'[Len(trace')].stage.mw \in BuiltIn
     /\ ~Capability(trace'[Len(trace')].stage.mw, trace'[Len(trace')].action))
    => /\ tasks' = tasks
       /\ Len(stack') = Len(stack)
       /\ stack'[Len(stack')].todo = <<>>
       /\ stack'[Len(stack')].pipe = Tail(stack[Len(stack)].pipe)

\* C17: each built-in middleware of part_005 calls next (once) and never
\* resolve when the value lacks the capability it probes for, and does not
\* call next when it has it; a plain function action reaches the base update
\* exactly once, unchanged.
C17_BuiltInsFallThrough == []C17_Probed /\ [][C17_FallsThrough]_vars

\* A plain function went through defaultMiddleware to the base update.
C17_Witness ==
    /\ variant = "machine"
    /\ middlewareList = <<"defaultMiddleware">>
    /\ previous = <<>>
    /\ stack = <<>>
    /\ Len(trace) = 5
    /\ \A k \in 1..3 : trace[k].stage.mw \in BuiltIn /\ trace[k].next
    /\ trace[5].stage.mw = "baseUpdate"
    /\ trace[5].action = replaceState(2)
    /\ state = 2

Installed(mw) ==
    \/ \E i \in 1..Len(middlewareList) : middlewareList[i] = mw
    \/ \E i \in 1..Len(previous) : previous[i] = mw

\* C18: in a store with asyncActionMiddleware installed, an async-action
\* object is intercepted by the middleware (which does not call next) and is
\* never offered to the base dispatch, so the error 'Actions should be plain
\* functions' is never raised for it; any other value offered to the
\* middleware is forwarded to next unchanged.
C18_AsyncActionIntercepted ==
    (variant \in {"debounce", "plain"} /\ Installed("asyncActionMiddleware")) =>
        /\ \A i \in 1..Len(trace) :
               /\ trace[i].stage.mw = "dispatch" => trace[i].action.kind # "asyncObj"
               /\ trace[i].stage.mw = "asyncActionMiddleware" =>
                      (trace[i].next <=> trace[i].action.kind # "asyncObj")
        /\ \A r \in RunsSeen :
               LET vs == VisitsOf(r)
               IN  \A k \in 1..(Len(vs) - 1) :
                       vs[k].stage.mw = "asyncActionMiddleware" =>
                           vs[k].next /\ vs[k + 1].action = vs[k].action
        /\ exc => /\ trace # <<>>
                  /\ trace[Len(trace)].stage.mw = "dispatch"
                  /\ trace[Len(trace)].action.kind \notin {"function", "asyncObj"}

\* An async action that dispatches two actions was resolved by the middleware;
\* the listener heard once, of the final state.
C18_Witness ==
    /\ variant = "debounce"
    /\ middlewareList = <<"asyncActionMiddleware">>
    /\ previous = <<>>
    /\ stack = <<>>
    /\ ~exc
    /\ trace # <<>>
    /\ trace[1].action = createAsyncAction(<<replaceState(1), replaceState(2)>>)
    /\ trace[1].stage.mw = "asyncActionMiddleware"
    /\ state = 2
    /\ history = <<2>>

\* C19: the self-dispatch handle given to a middleware re-enters the full
\* pipeline from its first stage: every run, whether started by the harness,
\* by a middleware handing a produced action to its handle or by a callback
\* it registered, begins at the first stage of the store's dispatch.
C19_SelfDispatchReentersFullPipeline ==
    \A r \in RunsSeen : VisitsOf(r)[1].stage = Head(Dispatch(2))

\* The runs started by run number r through a self-dispatch handle, and the
\* action each was started with.
ChildrenOf(r) == {trace[i].run : i \in {j \in 1..Len(trace) : trace[j].by = r}}

ActionOf(r) == VisitsOf(r)[1].action

\* Some dispatch raised 'Actions should be plain functions'.
Raised ==
    \E i \in 1..Len(trace) :
        /\ trace[i].stage.mw \in {"baseResolver", "baseUpdate", "dispatch"}
        /\ trace[i].action.kind # "function"

\* Run number r was offered to iteratorMiddleware with an iterator.
ThroughIterator(r) ==
    \E i \in 1..Len(trace) :
        /\ trace[i].run = r
        /\ trace[i].stage.mw = "iteratorMiddleware"
        /\ isIterator(trace[i].action)

\* The states a1(s), a2(a1(s)), .. reached by applying actions in order.
StatesOf(actions, s) ==
    LET st[k \in 0..Len(actions)] == IF k = 0 THEN s ELSE apply(actions[k], st[k - 1])
    IN  [k \in 1..Len(actions) |-> st[k]]

\* C20: an iterator dispatched through iteratorMiddleware has each action it
\* produces self-dispatched once, in production order, all of them before the
\* dispatch call returns; when the actions are plain functions a1..an the
\* listener hears a1(s), a2(a1(s)), .. in that order, once per action.
C20_IteratorInProductionOrder ==
    variant = "machine" =>
        /\ \A r \in RunsSeen :
               ThroughIterator(r) =>
                   LET items == ActionOf(r).items
                       cs == ChildrenOf(r)
                   IN  /\ Cardinality(cs) <= Len(items)
                       /\ \A c \in cs :
                              ActionOf(c) = items[Cardinality({d \in cs : d <= c})]
                       /\ (~OnStack(r) /\ ~Raised) => Cardinality(cs) = Len(items)
        /\ (/\ stack = <<>>
            /\ ThroughIterator(1)
            /\ \A k \in 1..Len(ActionOf(1).items) : isFunctionValue(ActionOf(1).items[k]))
           => history = StatesOf(ActionOf(1).items, trace[1].init)

\* update(chainActions(replaceState(2), replaceState(1))) has returned and
\* the listener heard 2, then 1.
C20_Witness ==
    /\ variant = "machine"
    /\ middlewareList = <<"defaultMiddleware">>
    /\ previous = <<>>
    /\ stack = <<>>
    /\ trace # <<>>
    /\ ActionOf(1) = chainActions(<<replaceState(2), replaceState(1)>>)
    /\ ChildrenOf(1) = {2, 3}
    /\ history = <<2, 1>>
    /\ state = 1

\* The promises pending with value (sequence of one action) x.
PendingPromises(ts, x) == {i \in 1..Len(ts) : ts[i].kind = "promise" /\ ts[i].items = x}

\* The stage just entered, in a step that entered one.
Entered1 == trace'[Len(trace')]

\* promiseMiddleware offered a promise: the call registers the continuation
\* and returns; no state change, no listener call.
C21_Defers ==
    (/\ Len(trace') = Len(trace) + 1
     /\ Entered1.stage.mw = "promiseMiddleware"
     /\ Entered1.action.kind = "promise")
    => /\ state' = state
       /\ history' = history
       /\ Len(tasks') = Len(tasks) + 1
       /\ SubSeq(tasks', 1, Len(tasks)) = tasks
       /\ tasks'[Len(tasks')].kind = "promise"
       /\ tasks'[Len(tasks')].items = Entered1.action.items
       /\ Len(stack') = Len(stack)
       /\ stack'[Len(stack')].pipe = <<>>
       /\ stack'[Len(stack')].todo = <<>>

\* A pending promise only stops pending by fulfilling: the host, with an empty
\* stack, calls the handle once with the value, and that promise is gone.
C21_FulfilsOnce ==
    \A x \in {tasks[i].items : i \in 1..Len(tasks)} :
        Cardinality(PendingPromises(tasks', x)) < Cardinality(PendingPromises(tasks, x))
        => /\ Cardinality(PendingPromises(tasks', x)) = Cardinality(PendingPromises(tasks, x)) - 1
           /\ Len(tasks') = Len(tasks) - 1
           /\ stack = <<>>
           /\ Len(stack') = 1
           /\ stack'[1].action = x[1]
           /\ stack'[1].pipe = Dispatch(2)
           /\ state' = state

\* A top-level call has returned to the harness or the host.
Returned == stack = <<>> /\ trace # <<>>

\* What a returned top-level call did, by the kind of its action.
C21_Returned ==
    Returned =>
        /\ (\E i \in 1..Len(trace) : /\ trace[i].run = 1
                                      /\ trace[i].stage.mw = "promiseMiddleware"
                                      /\ trace[i].action.kind = "promise")
              => state = trace[1].init /\ history = <<>> /\ ChildrenOf(1) = {}
        /\ ActionOf(1).kind = "function"
              => state = apply(ActionOf(1), trace[1].init) /\ history = <<state>>

Told(a) ==
    /\ Returned
    /\ ActionOf(1) = a
    /\ state = apply(a, trace[1].init)
    /\ history = <<state>>

\* C21: a promise dispatched through promiseMiddleware returns to the caller
\* with the state unchanged and no listener invoked; the handle is called with
\* the value once, when the promise fulfils; and while a promise with a plain
\* action a is pending, the host eventually runs a and the listener is told
\* the state a produces.
C21_PromiseDeferred ==
    /\ []C21_Returned
    /\ [][C21_Defers]_vars
    /\ [][C21_FulfilsOnce]_vars
    /\ \A a \in {replaceState(1), replaceState(2)} :
           (PendingPromises(tasks, <<a>>) # {}) ~> Told(a)

\* update(Promise.resolve(replaceState(1))) has returned; nothing changed yet.
C21_Witness ==
    /\ variant = "machine"
    /\ middlewareList = <<"defaultMiddleware">>
    /\ previous = <<>>
    /\ Returned
    /\ ActionOf(1) = promiseOf(replaceState(1))
    /\ PendingPromises(tasks, <<replaceState(1)>>) = {1}
    /\ state = UNDEFINED
    /\ history = <<>>

\* Top-level runs (made by the harness or by the host) do not overlap: every
\* frame above the first belongs to a run started through a handle.
C22_OneRunAtATime == \A i \in 2..Len(stack) : stack[i].by # 0

\* The host takes one callback from the queue: with an empty stack, one
\* top-level run starts on the state current at that moment, and the other
\* pending callbacks stay as they are.
C22_CompletionStep ==
    tasks' # tasks /\ Len(tasks') <= Len(tasks) =>
        /\ stack = <<>>
        /\ Len(stack') = 1
        /\ stack'[1].by = 0
        /\ stack'[1].init = state
        /\ state' = state
        /\ \E i \in 1..Len(tasks) :
               /\ stack'[1].action = Head(tasks[i].items)
               /\ \A j \in (1..Len(tasks)) \ {i} : \E k \in 1..Len(tasks') : tasks'[k] = tasks[j]
               /\ tasks[i].kind = "promise" =>
                      /\ Len(tasks') = Len(tasks) - 1
                      /\ \A x \in {tasks[j].items : j \in 1..Len(tasks)} :
                             Cardinality(PendingPromises(tasks', x)) =
                                 Cardinality(PendingPromises(tasks, x)) - (IF x = tasks[i].items THEN 1 ELSE 0)

\* A top-level run of a plain action, whoever started it, is applied to the
\* state it found and the listener hears the result.
C22_AppliedToCurrent ==
    (Returned /\ ActionOf(1).kind = "function") =>
        /\ Len(trace) = Len(VisitsOf(1))
        /\ state = apply(ActionOf(1), trace[1].init)
        /\ history = <<state>>

\* C22: the values of pending promises are dispatched in the order in which
\* the promises complete, whatever the order in which they were dispatched:
\* each completion is one top-level run, alone on the stack, applied to the
\* state current at that time; a promise leaves the queue in the step that
\* dispatched its value (never twice), and none stays pending for ever.
C22_CompletionOrder ==
    /\ []C22_OneRunAtATime
    /\ []C22_AppliedToCurrent
    /\ [][C22_CompletionStep]_vars
    /\ <>[](\A i \in 1..Len(tasks) : tasks[i].kind # "promise")

\* A promise of replaceState(1) was dispatched first and is still pending;
\* the promise dispatched after it (inside an iterator whose second element
\* set the state to 1) has completed first and its value was applied to 1.
C22_Witness ==
    /\ middlewareList = <<"defaultMiddleware">>
    /\ ops = 2
    /\ Returned
    /\ ActionOf(1) = replaceState(2)
    /\ trace[1].init = 1
    /\ state = 2
    /\ history = <<2>>
    /\ Len(tasks) = 1
    /\ PendingPromises(tasks, <<replaceState(1)>>) = {1}

\* Run number r was offered to observableMiddleware with an observable.
ThroughObservable(r) ==
    \E i \in 1..Len(trace) :
        /\ trace[i].run = r
        /\ trace[i].stage.mw = "observableMiddleware"
        /\ trace[i].action.kind = "observable"

Subscriptions(ts) == {i \in 1..Len(ts) : ts[i].kind = "observable"}

\* observableMiddleware offered an observable subscribes to it with the
\* handle and does not call next: the emissions are handed to the handle
\* inside the call, or are left for the host to deliver, all of them.
C23_Subscribes ==
    (/\ Len(trace') = Len(trace) + 1
     /\ Entered1.stage.mw = "observableMiddleware"
     /\ Entered1.action.kind = "observable")
    => /\ ~Entered1.next
       /\ state' = state
       /\ history' = history
       /\ Len(stack') = Len(stack)
       /\ stack'[Len(stack')].pipe = <<>>
       /\ \/ stack'[Len(stack')].todo = Entered1.action.items /\ tasks' = tasks
          \/ /\ stack'[Len(stack')].todo = <<>>
             /\ Len(tasks') = Len(tasks) + 1
             /\ SubSeq(tasks', 1, Len(tasks)) = tasks
             /\ tasks'[Len(tasks')].kind = "observable"
             /\ tasks'[Len(tasks')].items = Entered1.action.items

\* The emissions made inside the call: one run each, in emission order.
C23_EmittedInOrder ==
    variant = "machine" =>
        /\ \A r \in RunsSeen :
               ThroughObservable(r) =>
                   LET items == ActionOf(r).items
                       cs == ChildrenOf(r)
                   IN  /\ Cardinality(cs) <= Len(items)
                       /\ \A c \in cs :
                              ActionOf(c) = items[Cardinality({d \in cs : d <= c})]
                       /\ (~OnStack(r) /\ ~Raised) => Cardinality(cs) \in {0, Len(items)}
        /\ (/\ Returned
            /\ ThroughObservable(1)
            /\ \A k \in 1..Len(ActionOf(1).items) : ActionOf(1).items[k].kind = "function")
           => \/ history = StatesOf(ActionOf(1).items, trace[1].init)
              \/ history = <<>> /\ state = trace[1].init /\ ChildrenOf(1) = {}

\* The emissions delivered by the host: a subscription only changes in a step
\* where the host, with an empty stack, hands its next emission to the handle;
\* the rest stays to be emitted, and after the last one the subscription ends.
C23_NextEmission ==
    (tasks' # tasks /\ Len(tasks') <= Len(tasks)) =>
        /\ stack = <<>>
        /\ Len(stack') = 1
        /\ \E j \in 1..Len(tasks) :
               LET gone == SubSeq(tasks, 1, j - 1) \o SubSeq(tasks, j + 1, Len(tasks))
               IN  \/ tasks[j].kind = "promise" /\ tasks' = gone
                   \/ /\ tasks[j].kind = "observable"
                      /\ stack'[1].action = Head(tasks[j].items)
                      /\ stack'[1].pipe = Dispatch(tasks[j].self)
                      /\ tasks' = IF Len(tasks[j].items) = 1 THEN gone
                                  ELSE [tasks EXCEPT ![j].items = Tail(tasks[j].items)]

\* C23: an observable dispatched through observableMiddleware has every action
\* it emits handed to the self-dispatch handle exactly once, in emission
\* order, and nothing once the stream has completed; the listener hears the
\* resulting states in that order.
C23_ObservableInEmissionOrder ==
    /\ []C23_EmittedInOrder
    /\ [][C23_Subscribes]_vars
    /\ [][C23_NextEmission]_vars
    /\ <>[](Subscriptions(tasks) = {})

\* update(Observable.of(replaceState(1), replaceState(2))): the first emission
\* has been delivered and applied, the second is still to come.
C23_Witness ==
    /\ middlewareList = <<"defaultMiddleware">>
    /\ ops = 1
    /\ Returned
    /\ ActionOf(1) = replaceState(1)
    /\ state = 1
    /\ history = <<1>>
    /\ Len(tasks) = 1
    /\ tasks[1].kind = "observable"
    /\ tasks[1].items = <<replaceState(2)>>

\* ------------------------------------------------------------- state objects: values
\* The content of the state is modelled apart from the listener registry and
\* the middleware pipeline: its specification (SpecState) runs a store whose
\* one listener writes to history, and whose state is an object on a heap.
\*
\* Property names, and the order in which Object.keys lists them.
Keys == {"foo", "bar"}

KeyOrder == <<"foo", "bar">>

\* JavaScript values: a missing property, undefined, a primitive, a reference
\* to an object on the heap.
Absent == [t |-> "absent"]

undefined == [t |-> "undefined"]

Prim(n) == [t |-> "prim", v |-> n]

Ref(r) == [t |-> "object", ref |-> r]

\* {}
NoProps == [k \in Keys |-> Absent]

\* {[key]: value}
Only(key, value) == [k \in Keys |-> IF k = key THEN value ELSE Absent]

\* An object on the heap: its own enumerable properties, and whether
\* Object.freeze was applied to it.
Cell(props, frozen) == [props |-> props, frozen |-> frozen]

\* The own properties of a value (a primitive or undefined has none to copy).
propsOf(h, value) == IF value.t = "object" THEN h[value.ref].props ELSE NoProps

\* Object.keys(value)
keys(h, value) == {k \in Keys : propsOf(h, value)[k] # Absent}

\* value[key]
read(h, value, key) ==
    IF propsOf(h, value)[key] = Absent THEN undefined ELSE propsOf(h, value)[key]

\* Object.assign that keeps what the target already has.
assignKeep(dst, src) == [k \in Keys |-> IF dst[k] # Absent THEN dst[k] ELSE src[k]]

\* Object.assign(dst, src): the properties of src are written over dst.
assign(dst, src) == [k \in Keys |-> IF src[k] # Absent THEN src[k] ELSE dst[k]]

\* ------------------------------------------------------------- state objects: actions
\* Actions.  setState(props) merges; literal(props) is a plain function
\* () => ({...}) returning a new object literal (not frozen); identityAction is
\* state => state; asyncFunction(cmds) is the function-style
\* createAsyncAction(func) of part_004 / part_006 and asyncObject(cmds) the
\* object {_asyncAction: func} of src/src/index.js, where cmds are the calls
\* func makes, in order: dispatch(action) and getState().
setState(props) == [t |-> "setState", props |-> props]

literal(props) == [t |-> "literal", props |-> props]

identityAction == [t |-> "identity"]

asyncFunction(cmds) == [t |-> "asyncFn", cmds |-> cmds]

asyncObject(cmds) == [t |-> "asyncObj", cmds |-> cmds]

\* part_006: reduceActions(...actions), a function that calls each in turn.
composed(items) == [t |-> "compose", items |-> items]

callDispatch(action) == [c |-> "dispatch", a |-> action]

callGetState == [c |-> "getState"]

\* part_004:239-242: func(dispatch, getState, rootDispatch, rootGetState) calls
\* rootDispatch(action), the dispatch of the store itself.
callRootDispatch(action) == [c |-> "rootDispatch", a |-> action]

\* typeof value === "function"
isFunctionObject(value) == value.t \in {"setState", "literal", "identity", "asyncFn", "compose"}

\* value && isFunction(value._asyncAction)
isAsyncObject(value) == value.t = "asyncObj"

\* ------------------------------------------------------------- state objects: the store
\* The store while one call of the harness runs: let state, the heap, the
\* re-entrancy counter (dispatchDepth or debounced), the states the listener
\* was called with, the results of the getState calls made by async functions,
\* and whether an exception is propagating.
Store(s, h, count) ==
    [state |-> s, heap |-> h, count |-> count, told |-> <<>>, reads |-> <<>>,
     inits |-> <<>>, err |-> FALSE]

\* The result of calling a function: the store afterwards, and the value returned.
Result(c, ret) == [c |-> c, ret |-> ret]

Front(path) == SubSeq(path, 1, Len(path) - 1)

Last(path) == path[Len(path)]

\* The nested getState of each variant, applied to the parent's value:
\*   part_004:86      state == null ? undefined : state[key]
\*   src/src/index.js (getState() || {})[key]
\*   part_004:228, part_006:120   getState()[key]     (a TypeError on undefined)
nestedGetStateThrows(v, parent) == v = "depth" /\ parent = undefined

\* A getState that hands back the state the store had when the function was called.
getStateAtEntry(c, entry) == entry

\* const getState = () => state;
getState(c, entry) == c.state

\* getState at a nesting path: createNestedGetState(getState, key), from the root.
RECURSIVE getStateAt(_, _, _)
getStateAt(h, root, path) ==
    IF path = <<>> THEN root
    ELSE read(h, getStateAt(h, root, Front(path)), Last(path))

\* Does getState at this path raise?
RECURSIVE getStateRaises(_, _, _)
getStateRaises(h, root, path) ==
    IF path = <<>> THEN FALSE
    ELSE \/ getStateRaises(h, root, Front(path))
         \/ nestedGetStateThrows(variant, getStateAt(h, root, Front(path)))

\* createNestedDispatch(dispatch, key): action => dispatch(setState({[key]: action}))
RECURSIVE wrap(_, _)
wrap(path, action) ==
    IF path = <<>> THEN action
    ELSE wrap(Front(path), setState(Only(Last(path), action)))

\* The object setState writes to, were it the state it was given.
targetSame(h, st) == IF st.t = "object" THEN st.ref ELSE Len(h) + 1

\* The object setState writes to: assign({}, ...), {...}, createRecord(...) make a new one.
target(h, st) == Len(h) + 1

\* Writing the merged properties to the target and freezing it; writing to a
\* frozen object raises a TypeError (the modules are strict code).
written(c, at, props) ==
    IF at > Len(c.heap) THEN [c EXCEPT !.heap = Append(@, Cell(props, TRUE))]
    ELSE IF c.heap[at].frozen THEN [c EXCEPT !.err = TRUE]
    ELSE [c EXCEPT !.heap[at] = Cell(props, TRUE)]

RECURSIVE callAction(_, _, _, _)
RECURSIVE mapValues(_, _, _, _, _)
RECURSIVE runFunc(_, _, _, _)
RECURSIVE storeDispatch(_, _)
RECURSIVE dispatchAt(_, _, _)
RECURSIVE composeCall(_, _, _, _)

\* mapValues(obj, (value, key) => isFunction(value) ? value(state[key], ...) : value)
\* over the keys still to visit; o is the object built so far.  A function
\* value is called with the sub-state and (part_004, part_006) the nested
\* dispatch and getState of its key.
mapValues(c, order, obj, st, path) ==
    IF order = <<>> \/ c.err THEN Result(c, NoProps)
    ELSE LET key == Head(order)
             value == obj[key]
             this == IF value = Absent THEN Result(c, Absent)
                     ELSE IF isFunctionObject(value)
                     THEN callAction(c, value, read(c.heap, st, key), path \o <<key>>)
                     ELSE Result(c, value)
             rest == mapValues(this.c, Tail(order), obj, st, path)
         IN  Result(rest.c, [k \in Keys |-> IF k = key THEN this.ret ELSE rest.ret[k]])

\* ac1(ac2(state, ...), ...) for each action of reduceActions in turn (part_006:141)
composeCall(c, items, st, path) ==
    IF items = <<>> \/ c.err THEN Result(c, st)
    ELSE LET first == callAction(c, Head(items), st, path)
         IN  composeCall(first.c, Tail(items), first.ret, path)

\* func(dispatch, getState): the calls the function makes, in order.
runFunc(c, cmds, path, entry) ==
    IF cmds = <<>> \/ c.err THEN c
    ELSE LET cmd == Head(cmds)
             root == getState(c, entry)
             after == IF cmd.c = "dispatch" THEN dispatchAt(c, path, cmd.a)
                      ELSE IF cmd.c = "rootDispatch" THEN dispatchAt(c, <<>>, cmd.a)
                      ELSE IF getStateRaises(c.heap, root, path)
                      THEN [c EXCEPT !.err = TRUE]
                      ELSE [c EXCEPT !.reads = Append(@,
                                [path |-> path, root |-> c.state,
                                 got |-> getStateAt(c.heap, root, path)])]
         IN  runFunc(after, Tail(cmds), path, entry)

\* action(state, dispatch, getState): what the function returns, and what it
\* does to the store on the way.
callAction(c, action, st, path) ==
    CASE action.t = "identity" -> Result(c, st)
      [] action.t = "literal" ->
            Result([c EXCEPT !.heap = Append(@, Cell(action.props, FALSE))],
                   Ref(Len(c.heap) + 1))
      [] action.t = "setState" ->
            \* the default parameter (state={}, EMPTY_STATE, EMPTY_RECORD) has no properties
            LET mapped == mapValues(c, KeyOrder, action.props, st, path)
                at == target(mapped.c.heap, st)
                merged == assign(assign(NoProps, propsOf(mapped.c.heap, st)), mapped.ret)
            IN  IF mapped.c.err THEN Result(mapped.c, undefined)
                ELSE Result(written(mapped.c, at, merged), Ref(at))
      [] action.t = "asyncFn" ->
            \* func(dispatch, getState); return getState();
            LET ran == runFunc(c, action.cmds, path, c.state)
                root == getState(ran, c.state)
            IN  IF ran.err THEN Result(ran, undefined)
                ELSE IF getStateRaises(ran.heap, root, path)
                THEN Result([ran EXCEPT !.err = TRUE], undefined)
                ELSE Result(ran, getStateAt(ran.heap, root, path))
      [] action.t = "compose" -> composeCall(c, action.items, st, path)

\* part_004 / part_006: if (state !== initialState && dispatchDepth === 0)
\* src/src/index.js:    if (newState !== initialState && debounced === 0)
broadcast(c, initialState) ==
    IF c.state # initialState /\ c.count = 0
    THEN [c EXCEPT !.told = Append(@, c.state)]
    ELSE c

\* createStore.dispatch.
\*   part_004, part_006: dispatchDepth += 1; try { state = action(...) }
\*                       finally { dispatchDepth -= 1 }; then the broadcast
\*   src/src/index.js:   state = action(state); notify(initialState, state)
storeDispatch(c, action) ==
    IF c.err THEN c
    ELSE IF ~isFunctionObject(action) THEN [c EXCEPT !.err = TRUE]
    ELSE IF variant = "debounce"
    THEN LET r == callAction(c, action, c.state, <<>>)
         IN  IF r.c.err THEN r.c
             ELSE broadcast([r.c EXCEPT !.state = r.ret], c.state)
    ELSE LET r == callAction([c EXCEPT !.count = @ + 1], action, c.state, <<>>)
             left == [r.c EXCEPT !.count = @ - 1]
         IN  IF r.c.err THEN left
             ELSE broadcast([left EXCEPT !.state = r.ret], c.state)

\* The dispatch of the store bound at a nesting path.  src/src/index.js: the
\* nested store is enhanced, so asyncActionMiddleware sees the action first and
\* runs debounce(action._asyncAction)(dispatch, getState) with the nested
\* handles; anything else goes to createNestedDispatch.
dispatchAt(c, path, action) ==
    IF c.err THEN c
    ELSE IF variant = "debounce" /\ middlewareList # <<>> /\ isAsyncObject(action)
    THEN LET ran == runFunc([c EXCEPT !.count = @ + 1], action.cmds, path, c.state)
         IN  \* finally { debounced -= 1; notify(initialState, st); }
             broadcast([ran EXCEPT !.count = @ - 1], c.state)
    ELSE storeDispatch(c, wrap(path, action))

\* ------------------------------------------------------------- state objects: binding
\* A tree of action creators: its initialize action creator (the action it
\* returns, or Absent) and the trees nested under its keys.  Every other action
\* creator of a level returns one of LevelActions.
Tree(initialize, nested) == [initialize |-> initialize, nested |-> nested]

isBound(tree, path) ==
    IF path = <<>> THEN TRUE
    ELSE IF tree.nested[path[1]] = Absent THEN FALSE
    ELSE IF Len(path) = 1 THEN TRUE
    ELSE tree.nested[path[1]].nested[path[2]] # Absent

RECURSIVE bindNested(_, _, _, _)
RECURSIVE bindActionCreators(_, _, _)

\* mapValues(actionCreators, ...) binds the nested trees in key order; a
\* function is bound without being called.
bindNested(c, order, tree, path) ==
    IF order = <<>> THEN c
    ELSE LET key == Head(order)
             this == IF tree.nested[key] = Absent THEN c
                     ELSE bindActionCreators(c, tree.nested[key], path \o <<key>>)
         IN  bindNested(this, Tail(order), tree, path)

\* A bindActionCreators that calls initialize with the dispatch of the root
\* instead of the dispatch of its level.
bindActionCreatorsUnnested(c, tree, path) ==
    LET nested == bindNested(c, KeyOrder, tree, path)
    IN  IF tree.initialize = Absent \/ nested.err THEN nested
        ELSE dispatchAt([nested EXCEPT !.inits = Append(@, path)], <<>>, tree.initialize)

\* bindActionCreators: const {initialize} = actions;
\*                     if (isFunction(initialize)) { initialize(); }
\* after the nested trees are bound, with the dispatch of this level.
bindActionCreators(c, tree, path) ==
    LET nested == bindNested(c, KeyOrder, tree, path)
    IN  IF tree.initialize = Absent \/ nested.err THEN nested
        ELSE dispatchAt([nested EXCEPT !.inits = Append(@, path)], path, tree.initialize)

\* ------------------------------------------------------------- state objects: specification
\* The stores with a state object: "nested" is part_004:1-140 (a nested
\* getState that tolerates undefined), "depth" is part_004:142-296 and part_006,
\* "debounce" is src/src/index.js.
StateVariants == {"nested", "depth", "debounce"}

\* The patches given to setState: plain values, and function values (called
\* with the value at their key).
Patches ==
    {NoProps, Only("foo", Prim(1)), Only("foo", Prim(2)), Only("bar", Prim(1)),
     Only("foo", undefined), [k \in Keys |-> IF k = "foo" THEN Prim(2) ELSE Prim(1)],
     Only("foo", identityAction), Only("bar", setState(Only("foo", Prim(2)))),
     [k \in Keys |-> IF k = "foo" THEN literal(Only("bar", Prim(1))) ELSE Prim(2)]}

PureStateActions ==
    {setState(p) : p \in Patches} \cup {identityAction, literal(Only("foo", Prim(1)))}

\* The calls an async function makes.
Funcs ==
    {<<>>, <<callGetState>>,
     <<callDispatch(setState(Only("foo", Prim(1)))), callGetState,
       callDispatch(setState(Only("foo", Prim(2))))>>,
     <<callDispatch(setState(Only("bar", Prim(1)))), callDispatch(identityAction)>>}

\* part_004:244-252
\*   reduceActionsAccumulator = (a1, a2) => createAsyncAction(dispatch => {
\*       dispatch(a1); dispatch(a2); })
\*   reduceActions = (...actions) => actions.reduce(reduceActionsAccumulator)
\* A reduceActions that dispatches the last action first.
RECURSIVE reduceActionsReversed(_)
reduceActionsReversed(list) ==
    IF Len(list) = 1 THEN list[1]
    ELSE asyncFunction(<<callDispatch(Last(list)),
                         callDispatch(reduceActionsReversed(Front(list)))>>)

RECURSIVE reduceActions(_)
reduceActions(list) ==
    IF Len(list) = 1 THEN list[1]
    ELSE asyncFunction(<<callDispatch(reduceActions(Front(list))),
                         callDispatch(Last(list))>>)

\* part_006:141
\*   reduceActions = (...actions) => actions.reduce((ac2, ac1) =>
\*       (state, ...) => ac1(ac2(state, ...), ...))
reduceActionsComposed(list) == IF Len(list) = 1 THEN list[1] ELSE composed(list)

\* The lists given to reduceActions.
ReducedLists ==
    {<<setState(Only("foo", Prim(1)))>>,
     <<setState(Only("foo", Prim(1))), setState(Only("foo", identityAction))>>,
     <<setState(Only("foo", undefined)), setState(Only("foo", undefined)),
       setState(Only("foo", Prim(2)))>>,
     <<setState(Only("bar", Prim(1))), literal(Only("foo", Prim(1))),
       setState(Only("bar", Prim(2)))>>,
     <<identityAction, identityAction>>}

\* What the harness, or a bound action creator, hands to dispatch.
StateActions(v) ==
    PureStateActions \cup {Prim(1)}
    \cup (IF v = "debounce" THEN {asyncObject(f) : f \in Funcs}
          ELSE {asyncFunction(f) : f \in Funcs})
    \cup (IF v # "depth" THEN {}
          ELSE {reduceActions(l) : l \in ReducedLists}
               \cup {reduceActionsComposed(l) : l \in ReducedLists}
               \cup {setState(Only("bar", asyncFunction(
                         <<callRootDispatch(setState(Only("foo", Prim(2))))>>))),
                     setState(Only("bar", asyncFunction(
                         <<callDispatch(setState(Only("foo", Prim(1)))),
                           callRootDispatch(setState(Only("bar", Prim(2))))>>)))})

\* The trees given to bindActionCreators / applyActionCreators.
Trees ==
    {Tree(setState(Only("foo", Prim(1))), NoProps),
     Tree(setState(Only("foo", Prim(1))), Only("bar", Tree(setState(Only("foo", Prim(2))), NoProps))),
     Tree(Absent, Only("bar", Tree(Absent, NoProps))),
     Tree(setState(Only("foo", Prim(1))),
          Only("bar", Tree(Absent, Only("bar", Tree(setState(Only("foo", Prim(2))), NoProps))))),
     Tree(setState(Only("bar", Prim(1))), Only("bar", Tree(setState(Only("foo", Prim(2))), NoProps))),
     Tree(literal(Only("foo", Prim(1))), Only("bar", Tree(setState(Only("foo", Prim(2))), NoProps))),
     Tree(setState(Only("bar", Prim(1))), Only("bar", Tree(Absent, NoProps)))}

Paths == {<<>>, <<"bar">>, <<"bar", "bar">>}

InitState ==
    /\ variant \in StateVariants
    /\ middlewareList = IF variant = "debounce" THEN <<"asyncActionMiddleware">> ELSE <<>>
    /\ previous = <<>>
    /\ state = undefined
    /\ heap = <<>>
    /\ actionCreators = <<>>
    /\ listeners = <<"l1">>
    /\ history = <<>>
    /\ dispatchDepth = 0
    /\ debounced = 0
    /\ stack = <<>>
    /\ exc = FALSE
    /\ handles = {"l1"}
    /\ nextRef = 1
    /\ ops = 0
    /\ calls = <<>>
    /\ done = [op |-> "none"]
    /\ reentered = FALSE
    /\ live = [l \in ListenerIds |-> IF l = "l1" THEN 1 ELSE 0]
    /\ trace = <<>>
    /\ tasks = <<>>

\* The store as the harness finds it.
Current == Store(state, heap, dispatchDepth + debounced)

\* What a call of the harness leaves: the store, and the summary of the call.
Leaves(c, op, act, path) ==
    /\ state' = c.state
    /\ heap' = c.heap
    /\ nextRef' = Len(c.heap) + 1
    /\ history' = c.told
    /\ dispatchDepth' = IF variant = "debounce" THEN 0 ELSE c.count
    /\ debounced' = IF variant = "debounce" THEN c.count ELSE 0
    /\ ops' = ops + 1
    /\ done' = [op |-> op, act |-> act, path |-> path, init |-> state, before |-> heap,
                told |-> c.told, reads |-> c.reads, inits |-> c.inits, threw |-> c.err]
    /\ UNCHANGED <<variant, middlewareList, previous, listeners, stack, exc, handles,
                   calls, reentered, live, trace, tasks>>

\* bindActionCreators(tree, dispatch) / applyActionCreators(tree)(createStore)(),
\* when the store is built.
StateBind(tree) ==
    /\ ops = 0
    /\ tree \in Trees
    /\ actionCreators' = tree
    /\ Leaves(bindActionCreators(Current, tree, <<>>), "bind", tree, <<>>)

\* store.dispatch(action)
StateDispatch(a) ==
    /\ ops < MaxDispatches
    /\ a \in StateActions(variant)
    /\ Leaves(dispatchAt(Current, <<>>, a), "dispatch", a, <<>>)
    /\ UNCHANGED actionCreators

\* actions.bar.setBaz(...): a bound action creator of a nested level hands its
\* action to the dispatch of that level.
StateCall(path, a) ==
    /\ ops < MaxDispatches
    /\ actionCreators # <<>>
    /\ path \in Paths \ {<<>>}
    /\ isBound(actionCreators, path)
    /\ a \in StateActions(variant)
    /\ Leaves(dispatchAt(Current, path, a), "call", a, path)
    /\ UNCHANGED actionCreators

NextState ==
    \/ \E tree \in Trees : StateBind(tree)
    \/ \E a \in StateActions("depth") \cup StateActions("debounce") : StateDispatch(a)
    \/ \E path \in Paths : \E a \in StateActions("depth") \cup StateActions("debounce") : StateCall(path, a)

SpecState == InitState /\ [][NextState]_vars

\* ------------------------------------------------------------- state objects: claims
\* The content of a value: its properties, followed through every reference.
RECURSIVE Deep(_, _)
Deep(h, value) ==
    IF value.t = "object"
    THEN [t |-> "object", props |-> [k \in Keys |-> Deep(h, h[value.ref].props[k])]]
    ELSE value

\* The harness dispatched setState(p) to the store, and it returned.
MergedBy(d) == d.op = "dispatch" /\ d.act.t = "setState" /\ ~d.threw

\* p[k](s[k]), called on its own.
CalledAlone(d, k) ==
    LET r == callAction(Store(d.init, d.before, 1), d.act.props[k], read(d.before, d.init, k), <<k>>)
    IN  Deep(r.c.heap, r.ret)

\* C24: for every state s (undefined counts as the empty state) and patch p,
\* setState(p)(s) has exactly the keys of s and of p; at a key of p it holds
\* p[k](s[k]) when p[k] is callable and p[k] otherwise; at every other key of
\* s it holds what s holds.
C24_SetStateMerges ==
    MergedBy(done) =>
        LET p == done.act.props
            s == done.init
        IN  /\ keys(heap, state) = keys(done.before, s) \cup {k \in Keys : p[k] # Absent}
            /\ \A k \in Keys :
                  IF p[k] = Absent THEN read(heap, state, k) = read(done.before, s, k)
                  ELSE IF isFunctionObject(p[k])
                  THEN Deep(heap, read(heap, state, k)) = CalledAlone(done, k)
                  ELSE read(heap, state, k) = p[k]

\* {foo: 1} merged with {bar: setState({foo: 2})}: foo is kept, bar is the
\* result of the nested action on the missing sub-state.
C24_Witness ==
    /\ MergedBy(done)
    /\ done.act = setState(Only("bar", setState(Only("foo", Prim(2)))))
    /\ Deep(done.before, done.init) = Deep(<<Cell(Only("foo", Prim(1)), TRUE)>>, Ref(1))
    /\ keys(heap, state) = {"foo", "bar"}
    /\ read(heap, state, "foo") = Prim(1)
    /\ Deep(heap, read(heap, state, "bar")) = Deep(<<Cell(Only("foo", Prim(2)), TRUE)>>, Ref(1))

\* C25: setState(p) never mutates the state it is given: every object that
\* existed before a call (so every state a listener was ever given) is
\* unchanged after it, and the result of setState is a new frozen object, a
\* reference different from the input even when p is empty, so that
\* dispatching setState({}) still notifies the listener.
C25_SetStateMakesNewObject ==
    done.op # "none" =>
        /\ Len(heap) >= Len(done.before)
        /\ \A r \in 1..Len(done.before) : heap[r] = done.before[r]
        /\ MergedBy(done) =>
              /\ state.t = "object"
              /\ state # done.init
              /\ state.ref > Len(done.before)
              /\ heap[state.ref].frozen
              /\ history = <<state>>

\* setState({}) dispatched to a store that holds an unfrozen object literal:
\* the listener is given a new object with the same content.
C25_Witness ==
    /\ MergedBy(done)
    /\ done.act = setState(NoProps)
    /\ done.init.t = "object"
    /\ ~done.before[done.init.ref].frozen
    /\ state # done.init
    /\ Deep(heap, state) = Deep(done.before, done.init)
    /\ history = <<state>>

\* The harness dispatched createAsyncAction(func) to a function-style store,
\* and dispatch returned.
AsyncDone(d) ==
    /\ variant \in {"nested", "depth"}
    /\ d.op = "dispatch"
    /\ d.act.t = "asyncFn"
    /\ ~d.threw

\* The store after the dispatches among cmds, each made on its own inside an
\* outer dispatch.
RECURSIVE AfterDispatches(_, _)
AfterDispatches(c, cmds) ==
    IF cmds = <<>> THEN c
    ELSE AfterDispatches(IF Head(cmds).c = "dispatch" THEN storeDispatch(c, Head(cmds).a) ELSE c,
                         Tail(cmds))

MakesDispatch(cmds) == \E i \in 1..Len(cmds) : cmds[i].c = "dispatch"

\* C26: in the function-style stores, when dispatch(createAsyncAction(fn))
\* returns the state is the one left by the last dispatch made inside fn, not
\* the one the action was called with; if fn makes no dispatch the state is
\* unchanged and the listener is not called; every getState() call of fn
\* returned the state current when it was made.
C26_AsyncActionReturnsCurrentState ==
    AsyncDone(done) =>
        LET left == AfterDispatches(Store(done.init, done.before, 1), done.act.cmds)
        IN  /\ state = left.state
            /\ heap = left.heap
            /\ ~MakesDispatch(done.act.cmds)
                  => state = done.init /\ history = <<>> /\ heap = done.before
            /\ \A i \in 1..Len(done.reads) : done.reads[i].got = done.reads[i].root

\* fn dispatches setState({foo: 1}), calls getState(), dispatches
\* setState({foo: 2}): getState returned the first result, the state is the
\* second, and the listener was called once.
C26_Witness ==
    /\ AsyncDone(done)
    /\ done.act = asyncFunction(<<callDispatch(setState(Only("foo", Prim(1)))), callGetState,
                                  callDispatch(setState(Only("foo", Prim(2))))>>)
    /\ done.init = undefined
    /\ Len(done.reads) = 1
    /\ Deep(heap, done.reads[1].got) = Deep(<<Cell(Only("foo", Prim(1)), TRUE)>>, Ref(1))
    /\ Deep(heap, state) = Deep(<<Cell(Only("foo", Prim(2)), TRUE)>>, Ref(1))
    /\ history = <<state>>

\* The harness dispatched reduceActions(list) to a function-style store, and
\* dispatch returned.
ReducedDone(d, list) ==
    /\ variant = "depth"
    /\ d.op = "dispatch"
    /\ d.act \in {reduceActions(list), reduceActionsComposed(list)}
    /\ ~d.threw

\* an(...a2(a1(s))): each action called with the result of the one before it.
RECURSIVE InTurn(_, _, _)
InTurn(c, list, s) ==
    IF list = <<>> THEN Deep(c.heap, s)
    ELSE LET r == callAction(c, Head(list), s, <<>>)
         IN  InTurn(r.c, Tail(list), r.ret)

\* C27 as stated: dispatch(reduceActions(a1, ..., an)) of pure actions leaves
\* the state an(...a2(a1(s))), s being the state before the call, and the
\* listener is called exactly once, with that state.
C27_ReducedAlwaysNotifiesOnce ==
    \A list \in ReducedLists :
        ReducedDone(done, list) =>
            /\ Deep(heap, state) = InTurn(Store(done.init, done.before, 1), list, done.init)
            /\ history = <<state>>

\* C27, amended: dispatch(reduceActions(a1, ..., an)) of pure actions leaves
\* the state an(...a2(a1(s))), s being the state before the call; the listener
\* is called once, with that state, when it is not the very object s, and is
\* not called when it is.
C27_ReducedLeftToRight ==
    \A list \in ReducedLists :
        ReducedDone(done, list) =>
            /\ Deep(heap, state) = InTurn(Store(done.init, done.before, 1), list, done.init)
            /\ history = IF state # done.init THEN <<state>> ELSE <<>>

\* reduceActions(setState({foo: undefined}), setState({foo: undefined}),
\* setState({foo: 2})) in the nested-dispatch implementation: one call of the
\* listener, with {foo: 2}.
C27_Witness ==
    /\ variant = "depth"
    /\ ReducedDone(done, <<setState(Only("foo", undefined)), setState(Only("foo", undefined)), setState(Only("foo", Prim(2)))>>)
    /\ done.act.t = "asyncFn"
    /\ Deep(heap, state) = Deep(<<Cell(Only("foo", Prim(2)), TRUE)>>, Ref(1))
    /\ history = <<state>>

\* s[k1][k2]...: the sub-slice at a nesting path, a missing level counting as empty.
RECURSIVE Slice(_, _, _)
Slice(h, root, path) ==
    IF path = <<>> THEN root ELSE read(h, Slice(h, root, Front(path)), Last(path))

\* A bound action creator of a nested level was called.
NestedCall(d) == d.op = "call" /\ d.path # <<>>

\* At every level above the nested one, the keys off the path hold what they held.
OffPathKept(d) ==
    \A n \in 0..(Len(d.path) - 1) : \A j \in Keys \ {d.path[n + 1]} :
        read(heap, Slice(heap, state, SubSeq(d.path, 1, n)), j)
            = read(d.before, Slice(d.before, d.init, SubSeq(d.path, 1, n)), j)

\* C28: for action creators bound under a nested key k (at any depth),
\* dispatching a nested action a changes the root state s to s' with
\* s'[k] = a(s[k]) and every other key as in s, the root listener is called
\* once with s', and the getState handed to a nested async action returns the
\* sub-slice s[k].
C28_NestedActionChangesItsSlice ==
    NestedCall(done) =>
        /\ ~done.threw
        /\ done.act.t \in {"setState", "literal", "identity"} =>
              /\ Deep(heap, Slice(heap, state, done.path))
                    = InTurn(Store(done.init, done.before, 1), <<done.act>>,
                             Slice(done.before, done.init, done.path))
              /\ OffPathKept(done)
              /\ history = <<state>>
        /\ \A i \in 1..Len(done.reads) :
              done.reads[i].got = Slice(heap, done.reads[i].root, done.path)

\* The tree bound at a nesting path.
SubTree(tree, path) ==
    IF path = <<>> THEN tree
    ELSE IF Len(path) = 1 THEN tree.nested[path[1]]
    ELSE tree.nested[path[1]].nested[path[2]]

\* The levels of a tree, and those with an initialize action creator.
Levels(tree) == {path \in Paths : isBound(tree, path)}

Initialized(tree) == {path \in Levels(tree) : SubTree(tree, path).initialize # Absent}

\* The initial state of a level: what its initialize action makes of no state.
InitialOf(tree, path) ==
    InTurn(Store(undefined, <<>>, 1), <<SubTree(tree, path).initialize>>, undefined).props

\* bindActionCreators was called, and returned.
BindDone(d) == d.op = "bind" /\ ~d.threw

Count(seq, x) == Cardinality({i \in 1..Len(seq) : seq[i] = x})

\* Every initialize of the tree was invoked exactly once.
InitializedOnce(d) ==
    \A path \in Paths : Count(d.inits, path) = IF path \in Initialized(d.act) THEN 1 ELSE 0

\* The state holds, at every level, what that level's initialize set.
InitialKept(d) ==
    \A path \in Initialized(d.act) : \A k \in Keys :
        InitialOf(d.act, path)[k] # Absent
            => Deep(heap, read(heap, Slice(heap, state, path), k)) = InitialOf(d.act, path)[k]

\* Every initialize returns setState(patch) with a patch of plain values that
\* names no key under which a nested level with an initialize of its own is
\* bound.
Compatible(tree) ==
    \A path \in Initialized(tree) :
        /\ SubTree(tree, path).initialize.t = "setState"
        /\ \A k \in Keys : ~isFunctionObject(SubTree(tree, path).initialize.props[k])
        /\ \A k \in Keys :
              (\E below \in Initialized(tree) : Len(below) > Len(path)
                    /\ SubSeq(below, 1, Len(path) + 1) = path \o <<k>>)
                  => SubTree(tree, path).initialize.props[k] = Absent

\* C29 as stated: binding a tree of action creators invokes every initialize
\* of the tree exactly once, and the state afterwards is the merge of every
\* level's initial state: no level's initialize overwrites what the
\* initialize of a nested or of an enclosing level set.
C29_InitialStatesMerged ==
    BindDone(done) => InitializedOnce(done) /\ InitialKept(done)

\* C29, amended: binding a tree of action creators invokes every initialize
\* of the tree exactly once; when every initialize returns setState(patch)
\* with a patch of plain values that names no key under which a nested level
\* with an initialize is bound, the state afterwards holds every level's
\* initial state at that level's path.
C29_CompatibleInitialStatesMerged ==
    BindDone(done) =>
        /\ InitializedOnce(done)
        /\ Compatible(done.act) => InitialKept(done)

\* {initialize: setState({foo: 1}), bar: {bar: {initialize: setState({foo: 2})}}}:
\* the state is {foo: 1, bar: {bar: {foo: 2}}}, the innermost initialize ran first.
C29_Witness ==
    /\ BindDone(done)
    /\ done.inits = <<<<"bar", "bar">>, <<>>>>
    /\ Compatible(done.act)
    /\ read(heap, state, "foo") = Prim(1)
    /\ read(heap, Slice(heap, state, <<"bar", "bar">>), "foo") = Prim(2)
    /\ Len(history) = 2

\* ------------------------------------------------------------- listeners: order
\* The listener whose callback has just been entered, and the invocations of
\* that listener made earlier in the running top-level call.
Receiving == stack # <<>> /\ Top.k = "listener" /\ Top.made = 0 /\ calls # <<>>

EarlierOf(l) == {n \in 1..(Len(calls) - 1) : calls[n].l = l}

\* The forEach of an outer dispatch goes on after a listener callback has
\* dispatched: the state the outer dispatch assigned is no longer current.
Overtaken ==
    /\ Len(stack) >= 2
    /\ Top.k = "listener"
    /\ Top.cause = "broadcast"
    /\ stack[Len(stack) - 1].pc = "notify"
    /\ stack[Len(stack) - 1].ret # state

\* C30: a listener receives states in the order in which they became the
\* store's current state: whenever a listener callback is entered (by
\* subscribe, by a broadcast, by the broadcast of a nested dispatch or of a
\* dispatch issued from a listener callback) its argument is the state that
\* is current at that moment, and no earlier invocation of that listener
\* carried a state object allocated after it.
C30_ListenersReceiveStatesInOrder ==
    Receiving =>
        /\ calls[Len(calls)].s = state
        /\ \A n \in EarlierOf(Top.l) :
               (calls[n].s # UNDEFINED /\ state # UNDEFINED) => calls[n].s <= state

C30_Witness ==
    /\ Receiving
    /\ Overtaken
    /\ reentered
    /\ Top.l = "l2"
    /\ state = 2
    /\ \E n \in EarlierOf("l2") : calls[n].cause = "broadcast" /\ calls[n].s = 2
    /\ \E n \in EarlierOf("l1") : calls[n].cause = "broadcast" /\ calls[n].s = 1

\* ------------------------------------------------------------- two stores side by side
\* The depth-counter store (part_004:173-211 with the function-style
\* createAsyncAction) and the debounce store (src/src/index.js with
\* asyncActionMiddleware installed) are given the same calls by one harness.
\* In this specification state, listeners, nextRef and history hold one value
\* per store; the listeners only record what they are called with.  handles
\* holds the unsubscribe functions subscribe has returned: the listener each
\* closes over, the number of the subscribe call that made it, and how many
\* times it has been called.
\*
\* createAsyncAction(func): cmds are the values func hands to dispatch, in
\* order; throws says whether func throws after the last of them.
func(cmds, throws) == [t |-> "async", cmds |-> cmds, throws |-> throws]

\* What the harness dispatches.
BothValues ==
    {[t |-> a] : a \in PureActions \cup {"throw", "notfn"}}
    \cup {func(cmds, throws) :
            cmds \in {<<>>, <<[t |-> "set"]>>, <<[t |-> "set"], [t |-> "reset"]>>,
                      <<[t |-> "set"], [t |-> "notfn"]>>,
                      <<func(<<[t |-> "set"]>>, FALSE), [t |-> "id"]>>,
                      <<func(<<[t |-> "set"]>>, TRUE), [t |-> "set"]>>},
            throws \in BOOLEAN}

\* listeners.forEach(listener => listener(state))
forEach(c) ==
    [c EXCEPT !.told = @ \o [n \in 1..Len(c.listeners) |->
                                 [l |-> c.listeners[n], s |-> c.state]]]

RECURSIVE callFunc(_, _, _)
RECURSIVE depthDispatch(_, _)
RECURSIVE debounceDispatch(_, _)

\* func(dispatch, getState): the dispatch calls of the function, made with the
\* dispatch of the store it runs in; a call that throws ends the function.
callFunc(v, c, cmds) ==
    IF cmds = <<>> \/ c.err THEN c
    ELSE callFunc(v, IF v = "depth" THEN depthDispatch(c, Head(cmds))
                     ELSE debounceDispatch(c, Head(cmds)),
                  Tail(cmds))

\* part_004:192-208 createStore.dispatch, with the function-style async action
\* (part_004:239-242) that calls func and returns getState().
depthDispatch(c, a) ==
    IF ~(isFunction(a.t) \/ a.t = "async") THEN [c EXCEPT !.err = TRUE]
    ELSE LET initialState == c.state
             entered == [c EXCEPT !.count = @ + 1]
             ran == CASE a.t = "async" ->
                           LET r == callFunc("depth", entered, a.cmds)
                           IN  [r EXCEPT !.err = @ \/ a.throws]
                      [] a.t = "throw" -> [entered EXCEPT !.err = TRUE]
                      [] a.t = "set" -> [entered EXCEPT !.state = entered.fresh, !.fresh = @ + 1]
                      [] OTHER -> [entered EXCEPT !.state = ActionResult(a.t, @, 0)]
             left == [ran EXCEPT !.count = finallyDepth(@)]
         IN  IF left.err THEN left
             ELSE IF depthNotifies(initialState, left.state, left.count)
             THEN forEach(left)
             ELSE left

\* src/src/index.js: the dispatch of the enhanced store.  asyncActionMiddleware
\* (112) runs debounce(action._asyncAction)(dispatch, getState) (90-99);
\* anything else reaches createStore.dispatch (81-88).
debounceDispatch(c, a) ==
    IF a.t = "async"
    THEN LET initialState == c.state
             r == callFunc("debounce", [c EXCEPT !.count = @ + 1], a.cmds)
             ran == [r EXCEPT !.err = @ \/ a.throws]
             left == [ran EXCEPT !.count = @ - 1]
         IN  \* finally { debounced -= 1; notify(initialState, state); }
             IF notify(initialState, left.state, left.count) THEN forEach(left) ELSE left
    ELSE IF ~isFunction(a.t) \/ a.t = "throw" THEN [c EXCEPT !.err = TRUE]
    ELSE LET ran == IF a.t = "set"
                    THEN [c EXCEPT !.state = c.fresh, !.fresh = @ + 1]
                    ELSE [c EXCEPT !.state = ActionResult(a.t, @, 0)]
         IN  IF notify(c.state, ran.state, ran.count) THEN forEach(ran) ELSE ran

InitBoth ==
    /\ variant = "both"
    /\ middlewareList = <<"asyncActionMiddleware">>
    /\ state = [v \in {"depth", "debounce"} |-> UNDEFINED]
    /\ listeners = [v \in {"depth", "debounce"} |-> <<>>]
    /\ nextRef = [v \in {"depth", "debounce"} |-> 1]
    /\ history = [v \in {"depth", "debounce"} |-> <<>>]
    /\ dispatchDepth = 0
    /\ debounced = 0
    /\ handles = {}
    /\ ops = 0
    /\ done = [op |-> "none"]
    /\ live = [l \in ListenerIds |-> 0]
    /\ stack = <<>>
    /\ exc = FALSE
    /\ calls = <<>>
    /\ reentered = FALSE
    /\ previous = <<>>
    /\ trace = <<>>
    /\ tasks = <<>>
    /\ heap = <<>>
    /\ actionCreators = <<>>

\* The store v as the harness finds it.
Found(v) ==
    [state |-> state[v], fresh |-> nextRef[v], listeners |-> listeners[v],
     count |-> IF v = "depth" THEN dispatchDepth ELSE debounced,
     told |-> <<>>, err |-> FALSE]

\* subscribe(l) on both stores: push, then listener(state).
BothSubscribe(l) ==
    /\ ops < MaxOps
    /\ \A v \in DOMAIN listeners : Len(listeners[v]) < MaxListeners
    /\ listeners' = [v \in DOMAIN listeners |-> push(listeners[v], l)]
    /\ history' = [v \in DOMAIN history |-> <<[l |-> l, s |-> state[v]]>>]
    /\ handles' = handles \cup {[l |-> l, n |-> ops + 1, used |-> 0]}
    /\ live' = [live EXCEPT ![l] = @ + 1]
    /\ ops' = ops + 1
    /\ done' = [op |-> "subscribe", act |-> l]
    /\ UNCHANGED <<variant, middlewareList, state, nextRef, dispatchDepth, debounced,
                   stack, exc, calls, reentered, previous, trace, tasks, heap,
                   actionCreators>>

\* The unsubscribe function h, called on both stores: it looks its listener
\* up in the registry each time it is called.
BothUnsubscribe(h) ==
    /\ ops < MaxOps
    /\ h \in handles
    /\ listeners' = [v \in DOMAIN listeners |-> createUnsubscribe(listeners[v], h.l)]
    /\ handles' = (handles \ {h}) \cup {[h EXCEPT !.used = @ + 1]}
    /\ history' = [v \in DOMAIN history |-> <<>>]
    /\ live' = [live EXCEPT ![h.l] = IF @ > 0 THEN @ - 1 ELSE 0]
    /\ ops' = ops + 1
    /\ done' = [op |-> "unsubscribe", act |-> h.l]
    /\ UNCHANGED <<variant, middlewareList, state, nextRef, dispatchDepth, debounced,
                   stack, exc, calls, reentered, previous, trace, tasks, heap,
                   actionCreators>>

\* dispatch(a) on both stores; the harness catches what is thrown.
BothDispatch(a) ==
    LET depth == depthDispatch(Found("depth"), a)
        debounce == debounceDispatch(Found("debounce"), a)
        left == [v \in DOMAIN state |-> IF v = "depth" THEN depth ELSE debounce]
    IN  /\ ops < MaxOps
        /\ \A v \in DOMAIN state : left[v].fresh <= MaxRefs + 1
        /\ state' = [v \in DOMAIN state |-> left[v].state]
        /\ nextRef' = [v \in DOMAIN state |-> left[v].fresh]
        /\ history' = [v \in DOMAIN state |-> left[v].told]
        /\ dispatchDepth' = depth.count
        /\ debounced' = debounce.count
        /\ ops' = ops + 1
        /\ done' = [op |-> "dispatch", act |-> a,
                    threw |-> [v \in DOMAIN state |-> left[v].err]]
        /\ UNCHANGED <<variant, middlewareList, listeners, handles, live, stack, exc,
                       calls, reentered, previous, trace, tasks, heap, actionCreators>>

NextBoth ==
    \/ \E l \in ListenerIds : BothSubscribe(l)
    \/ \E h \in [l : ListenerIds, n : 1..MaxOps, used : 0..1] : BothUnsubscribe(h)
    \/ \E a \in BothValues : BothDispatch(a)

SpecBoth == InitBoth /\ [][NextBoth]_vars

\* C31: the depth-counter store and the debounce store, given the same
\* sequence of subscribe, unsubscribe, plain dispatches and async actions
\* (throwing or not), deliver the same states to the same listeners in the
\* same order during every call and hold the same state after it.
C31_StoresAgree ==
    /\ history["depth"] = history["debounce"]
    /\ state["depth"] = state["debounce"]

\* ------------------------------------------------------------- listeners: unsubscribe in a broadcast
\* The forEach of the broadcast on top of the stack has no index left to visit.
BroadcastOver ==
    /\ stack # <<>>
    /\ Top.pc = "notify"
    /\ ~(Top.i <= Top.len /\ Top.i <= Len(listeners))

\* The broadcast invocations of listener l made since frame f was pushed.
ToldSince(f, l) ==
    {n \in (f.at + 1)..Len(calls) : calls[n].l = l /\ calls[n].cause = "broadcast"}

Registered(ls, l) == \E n \in 1..Len(ls) : ls[n] = l

\* C32: an unsubscribe made from a listener callback does not interrupt the
\* broadcast in progress: when the broadcast of a dispatched action is over,
\* every listener that was registered when it began and is still registered
\* has been called by it.
C32_UnsubscribeDoesNotInterrupt ==
    (BroadcastOver /\ Top.k = "dispatch" /\ Top.act \in PureActions) =>
        \A l \in ListenerIds :
            (Registered(Top.before, l) /\ Registered(listeners, l)) => ToldSince(Top, l) # {}

\* ------------------------------------------------------------- the re-entrancy counter
\* The calls of kind k on the call stack, and those among them whose action
\* or wrapped function has not yet left its try block.
CallsOnStack(k) == {n \in 1..Len(stack) : stack[n].k = k}

Running(k) == {n \in CallsOnStack(k) : stack[n].pc \in {"action", "body"}}

\* C33 as stated: the counter is never negative and equals the number of
\* dispatch (debounce-wrapped) calls on the call stack.
C33_CounterCountsCallsOnStack ==
    /\ dispatchDepth >= 0
    /\ debounced >= 0
    /\ variant = "depth" => dispatchDepth = Cardinality(CallsOnStack("dispatch"))
    /\ variant = "debounce" => debounced = Cardinality(CallsOnStack("debounce"))

\* C33, amended: the counter is never negative, equals the number of dispatch
\* (debounce-wrapped) calls on the call stack whose action (wrapped function)
\* is still running, and is 0 when no call is in progress, also after a call
\* that ended by throwing.
C33_CounterCountsRunningCalls ==
    /\ dispatchDepth >= 0
    /\ debounced >= 0
    /\ variant = "depth" => dispatchDepth = Cardinality(Running("dispatch"))
    /\ variant = "debounce" => debounced = Cardinality(Running("debounce"))
    /\ stack = <<>> => dispatchDepth = 0 /\ debounced = 0

C33_Witness ==
    /\ variant = "depth"
    /\ stack = <<>>
    /\ done.op = "dispatch"
    /\ done.act = "asyncFn"
    /\ done.threw
    /\ done.made = 2
    /\ done.final # done.init
    /\ dispatchDepth = 0

\* ------------------------------------------------------------- pipeline: stacked applyMiddleware
\* The visits among vs made to the middleware at position pos of layer.
VisitsTo(vs, layer, pos) ==
    {k \in 1..Len(vs) : vs[k].stage.layer = layer /\ vs[k].stage.pos = pos
                        /\ vs[k].stage.mw \notin {"defaultResolve", "dispatch"}}

\* C34: in src/src/index.js, with applyMiddleware(m2) applied to a store
\* creator already enhanced with applyMiddleware(m1), a plain function
\* dispatched through the resulting dispatch that reaches the base dispatch
\* was offered to each installed middleware exactly once, and the base
\* dispatch ran exactly once.
C34_EachMiddlewareOnce ==
    (variant = "debounce" /\ previous # <<>>) =>
        \A r \in RunsSeen :
            LET vs == VisitsOf(r)
            IN  (/\ vs[1].stage.layer = 2
                 /\ isFunctionValue(vs[1].action)
                 /\ \E k \in 1..Len(vs) : vs[k].stage.mw = "dispatch") =>
                    /\ \A i \in 1..Len(middlewareList) : Cardinality(VisitsTo(vs, 2, i)) = 1
                    /\ \A i \in 1..Len(previous) : Cardinality(VisitsTo(vs, 1, i)) = 1
                    /\ Cardinality({k \in 1..Len(vs) : vs[k].stage.mw = "dispatch"}) = 1

\* ------------------------------------------------------------- listeners: repeated states
\* The broadcast invocation of listener l that came last before the one just made.
PreviousTold(l) ==
    {n \in EarlierOf(l) : /\ calls[n].cause = "broadcast"
                          /\ \A k \in EarlierOf(l) : k <= n}

\* Every listener function is registered at most once.
SingleRegistrations ==
    \A l \in ListenerIds :
        live[l] <= 1 /\ Cardinality({n \in 1..Len(listeners) : listeners[n] = l}) <= 1

\* C35: in the stores that gate the notification (dispatchDepth, debounce),
\* when a broadcast enters the callback of a listener (registered once), the
\* state it hands over is not the state the previous broadcast invocation of
\* that listener carried, dispatches made from listener callbacks included.
C35_ToldOnlyWhenChanged ==
    (/\ variant \in {"depth", "debounce"}
     /\ Receiving
     /\ Top.cause = "broadcast"
     /\ SingleRegistrations) =>
        \A n \in PreviousTold(Top.l) : calls[n].s # calls[Len(calls)].s

\* ------------------------------------------------------------- listeners: in step with the state
\* The invocations of listener l made during the top-level call that ended last.
ToldTo(l) == {n \in 1..Len(calls) : calls[n].l = l}

\* C36: in the debounce store, when no call is in progress the state most
\* recently delivered to each subscribed listener is the current state.
\* Stated call by call: when a call made by the harness has ended, every
\* registered listener that was invoked during the call was last given the
\* current state, and if some registered listener was not invoked the state
\* is the one the store had when the call began.
C36_ListenersInStep ==
    (variant = "debounce" /\ stack = <<>> /\ done.top) =>
        \A l \in ListenerIds :
            Registered(listeners, l) =>
                IF ToldTo(l) # {}
                THEN \A n \in ToldTo(l) : (\A k \in ToldTo(l) : k <= n) => calls[n].s = state
                ELSE state = done.init

\* ------------------------------------------------------------- listeners: the counter at invocation
\* C37 as stated: in the stores with a re-entrancy counter no listener is
\* invoked while the counter is above zero, whether by a broadcast or by
\* subscribe.
C37_NeverInvokedWhileCounting ==
    variant \in {"depth", "debounce"} =>
        \A n \in 1..Len(calls) : calls[n].cnt = 0

\* C37, amended: no broadcast invokes a listener while the counter is above
\* zero; subscribe invokes its listener at once with the current state,
\* whatever the counter is.
C37_NoBroadcastWhileCounting ==
    variant \in {"depth", "debounce"} =>
        /\ \A n \in 1..Len(calls) : calls[n].cause = "broadcast" => calls[n].cnt = 0
        /\ (Receiving /\ Top.cause = "subscribe") =>
               /\ calls[Len(calls)].cnt = Counter
               /\ calls[Len(calls)].s = state
               /\ calls[Len(calls)].l = listeners[Len(listeners)]

C37_Witness ==
    /\ variant = "debounce"
    /\ Len(calls) = 2
    /\ calls[1].cause = "subscribe"
    /\ calls[1].cnt = 1
    /\ calls[1].s = 1
    /\ calls[2].cause = "broadcast"
    /\ calls[2].l = calls[1].l
    /\ calls[2].s = 2
    /\ Receiving

\* ------------------------------------------------------------- state objects: rootDispatch
\* C38: in part_004 (the variant whose actions receive rootDispatch), when the
\* async action dispatched under key bar calls rootDispatch(setState({foo: 2}))
\* to change the sibling key foo, the state after the outer dispatch has
\* returned still holds foo = 2.
C38_RootDispatchKept ==
    (/\ variant = "depth"
     /\ done.op = "dispatch"
     /\ done.act = setState(Only("bar", asyncFunction(
                       <<callRootDispatch(setState(Only("foo", Prim(2))))>>)))
     /\ ~done.threw) =>
        read(heap, state, "foo") = Prim(2)

\* ------------------------------------------------------------- debounce: a wrapped function throws
\* The exception of a wrapped function is about to leave its debounce frame.
C39_Leaving ==
    /\ variant = "debounce"
    /\ exc
    /\ stack # <<>>
    /\ Top.k = "debounce"
    /\ Top.pc = "body"

\* The broadcast made by the finally block of a debounce call that threw.
C39_Notifying ==
    /\ variant = "debounce"
    /\ stack # <<>>
    /\ Top.k = "debounce"
    /\ Top.pc = "notify"
    /\ Top.threw

\* C39: in src/src/index.js, when a debounce-wrapped function throws the
\* counter is decremented; if the counter is back to zero and the state
\* differs from the state at entry the listeners are notified, once each, with
\* the current state, and otherwise nobody is notified; then the exception
\* goes on to the caller of the wrapped function (during the broadcast no
\* exception is in flight unless a listener callback called into the store).
C39_DebounceThrowNotifies ==
    /\ [][C39_Leaving =>
            /\ debounced' = debounced - 1
            /\ state' = state
            /\ IF state # Top.init /\ debounced = 1
               THEN /\ C39_Notifying'
                    /\ ~exc'
                    /\ Len(stack') = Len(stack)
                    /\ stack'[Len(stack')].len = Len(listeners)
                    /\ stack'[Len(stack')].i = 1
                    /\ calls' = calls
               ELSE /\ stack' = Rest
                    /\ calls' = calls
                    /\ done'.threw
                    /\ exc' = (Rest # <<>>)]_vars
    /\ []((C39_Notifying /\ ~BroadcastOver) => debounced = 0 /\ (exc => reentered))
    /\ [][(C39_Notifying /\ BroadcastOver) =>
            /\ stack' = Rest
            /\ done'.threw
            /\ done'.final = state
            /\ exc' = (Rest # <<>>)]_vars
    /\ []((variant = "debounce" /\ Settled("debounce") /\ done.threw) =>
            /\ debounced = 0
            /\ done.exit = done.entry
            /\ IF done.final # done.init
               THEN ToldAll(done, done.final)
               ELSE BroadcastsBy(done) = <<>>)

C39_Witness ==
    /\ variant = "debounce"
    /\ Settled("debounce")
    /\ done.threw
    /\ done.made = 1
    /\ done.final # done.init
    /\ state = done.final
    /\ debounced = 0
    /\ Len(listeners) = 2
    /\ Len(BroadcastsBy(done)) = 2

\* ------------------------------------------------------------- unsubscribe functions
\* The registrations of listener l in the registry ls.
RegistrationsOf(ls, l) == {n \in 1..Len(ls) : ls[n] = l}

\* C40: an unsubscribe function removes at most one registration over its
\* lifetime, and only the one made by its own subscribe call: in each store
\* the registry holds, for every listener function, as many registrations as
\* there are unsubscribe functions of that listener that were never called
\* (so a subscription whose unsubscribe function was never called is still
\* registered, and is told of the next change).
C40_UnsubscribeRemovesOwnOnly ==
    \A v \in DOMAIN listeners :
        \A l \in ListenerIds :
            Cardinality(RegistrationsOf(listeners[v], l))
                = Cardinality({h \in handles : h.l = l /\ h.used = 0})


====
